---- MODULE Spec2Model ----
(***************************************************************************)
(* The actuator-ownership stream engine of sdk/cpp/src/provider.cpp        *)
(* (ActuatorProvider::Impl) as a state machine: the caller thread's API    *)
(* calls, the actuation worker, the stream thread with its receive worker  *)
(* and publish writer, and the databroker at the other end of the stream.  *)
(* Every thread start() spawns is an instance of generation g, so that the *)
(* single-worker properties are properties of the model, not of its shape. *)
(* The client facade of sdk/cpp/src/vss_client.cpp (VSSClient::Impl), with *)
(* its caller thread and its subscription read thread, follows the         *)
(* provider. A run exercises one of the two objects.                       *)
(***************************************************************************)
EXTENDS Integers, Sequences, FiniteSets, TLC

\* ---------------------------------------------------------------- bounds
MaxStarts  == 2      \* start() calls that spawn threads
MaxCmds    == 2      \* actuation commands for paths of the catalog
MaxPublish == 2      \* publish_actual calls
MaxBatch   == 2      \* actuation commands in one batch frame
MaxProvide == 2      \* paths handed to provide_actuators

MaxClientStarts == 2 \* start_subscriptions() calls that spawn a read thread
MaxFrames  == 2      \* SubscribeResponse frames the databroker streams

\* What the application and the databroker do in one run: which object is
\* used, how often start() or start_subscriptions() spawns threads, how many
\* owned commands arrive, in batches of how many at most, how many values are
\* published and for which paths the first and the second, whether connect()
\* and disconnect() are also called after the first start(), how many paths
\* it provides, "B" among them or not, whether the databroker is restarted
\* with another signal tree, how many frames it streams to the client, the
\* tag of the values its commands carry, and the kinds of the values
\* published, the first and the second.
\* The databroker sends batches while there are owned commands still to
\* arrive.
Budgets ==
    {[side |-> "provider", starts |-> MaxStarts, cmds |-> 1, batch |-> 1,
      pubs |-> 0, pubpaths |-> <<>>, conn |-> FALSE,
      provide |-> 1, paths |-> {"A"}, restart |-> FALSE, frames |-> 0,
      tag |-> "uint32", pubkinds |-> <<>>],
     [side |-> "provider", starts |-> 1, cmds |-> MaxCmds, batch |-> MaxBatch,
      pubs |-> 0, pubpaths |-> <<>>, conn |-> FALSE,
      provide |-> 1, paths |-> {"A"}, restart |-> FALSE, frames |-> 0,
      tag |-> "int32", pubkinds |-> <<>>],
     [side |-> "provider", starts |-> 1, cmds |-> 1, batch |-> 1,
      pubs |-> 1, pubpaths |-> <<{"A"}>>, conn |-> FALSE,
      provide |-> 1, paths |-> {"A"}, restart |-> FALSE, frames |-> 0,
      tag |-> "int32", pubkinds |-> <<"int32">>],
     [side |-> "provider", starts |-> 1, cmds |-> 0, batch |-> 0,
      pubs |-> MaxPublish, pubpaths |-> <<{"A", "B"}, {"A"}>>, conn |-> FALSE,
      provide |-> 1, paths |-> {"A"}, restart |-> FALSE, frames |-> 0,
      tag |-> "int32", pubkinds |-> <<"uint64", "string">>],
     [side |-> "provider", starts |-> 1, cmds |-> 0, batch |-> 0,
      pubs |-> 0, pubpaths |-> <<>>, conn |-> TRUE,
      provide |-> 1, paths |-> {"A"}, restart |-> FALSE, frames |-> 0,
      tag |-> "int32", pubkinds |-> <<>>],
     [side |-> "provider", starts |-> 0, cmds |-> 0, batch |-> 0,
      pubs |-> 0, pubpaths |-> <<>>, conn |-> FALSE,
      provide |-> MaxProvide, paths |-> {"A", "B"}, restart |-> TRUE, frames |-> 0,
      tag |-> "int32", pubkinds |-> <<>>],
     [side |-> "client", starts |-> 1, cmds |-> 0, batch |-> 0,
      pubs |-> 0, pubpaths |-> <<>>, conn |-> TRUE,
      provide |-> 0, paths |-> {}, restart |-> FALSE, frames |-> 1,
      tag |-> "int32", pubkinds |-> <<>>]}

\* The run in which only the client is used, with the full number of
\* start_subscriptions() calls and of frames.
ClientBudget ==
    [side |-> "client", starts |-> MaxClientStarts, cmds |-> 0, batch |-> 0,
     pubs |-> 0, pubpaths |-> <<>>, conn |-> TRUE,
     provide |-> 0, paths |-> {}, restart |-> FALSE, frames |-> MaxFrames,
     tag |-> "int32", pubkinds |-> <<>>]

Gens == 1..MaxStarts

\* The paths commands arrive for and values are published for: "A", which
\* the databroker lists under id 1. Id 2 is an id it lists no path under.
Paths == {"A"}

NoPath == ""
NoId == -1

\* The paths the application hands to provide_actuators and publish_actual:
\* "B" is a path the databroker lists no metadata for until it is restarted.
ProvidePaths == {"A", "B"}

\* The signal tree the databroker starts with, and the trees it can come up
\* with when it is restarted: each lists at most one path under an id.
InitialTree == [path \in ProvidePaths |-> IF path = "A" THEN 1 ELSE NoId]
Trees == {InitialTree, [path \in ProvidePaths |-> IF path = "A" THEN 2 ELSE 1]}

\* Value of types.hpp: a variant of eight alternatives, here the name of the
\* alternative held and a payload; a default-constructed Value is bool false.
ValueKinds == {"bool", "int32", "uint32", "int64", "uint64", "float", "double", "string"}
Payloads == {0, 1}
DefaultValue == [kind |-> "bool", val |-> 0]

\* kuksa::val::v2::Value: a oneof, so at most one field is set; "none" is the
\* message with no field set, as convert_to_proto constructs it.
ProtoTags == ValueKinds \cup {"none"}
EmptyProto == [tag |-> "none", val |-> 0]

\* convert_from_proto as it would be with a branch for every kind of Value.
convert_from_proto_AllKinds(proto_value) ==
    IF proto_value.tag \in ValueKinds
    THEN [kind |-> proto_value.tag, val |-> proto_value.val]
    ELSE DefaultValue

\* convert_from_proto: the has_...() chain over bool, int32, float, double and
\* string; anything else is `return false`.
convert_from_proto(proto_value) ==
    IF proto_value.tag = "bool" THEN [kind |-> "bool", val |-> proto_value.val]
    ELSE IF proto_value.tag = "int32" THEN [kind |-> "int32", val |-> proto_value.val]
    ELSE IF proto_value.tag = "float" THEN [kind |-> "float", val |-> proto_value.val]
    ELSE IF proto_value.tag = "double" THEN [kind |-> "double", val |-> proto_value.val]
    ELSE IF proto_value.tag = "string" THEN [kind |-> "string", val |-> proto_value.val]
    ELSE DefaultValue

\* convert_to_proto: the visitor sets a field for bool, int32_t, float, double
\* and std::string; for the other alternatives no branch is taken and the
\* message is returned as constructed.
convert_to_proto(cpp_value) ==
    IF cpp_value.kind = "bool" THEN [tag |-> "bool", val |-> cpp_value.val]
    ELSE IF cpp_value.kind = "int32" THEN [tag |-> "int32", val |-> cpp_value.val]
    ELSE IF cpp_value.kind = "float" THEN [tag |-> "float", val |-> cpp_value.val]
    ELSE IF cpp_value.kind = "double" THEN [tag |-> "double", val |-> cpp_value.val]
    ELSE IF cpp_value.kind = "string" THEN [tag |-> "string", val |-> cpp_value.val]
    ELSE EmptyProto

\* What an ActuateRequest's signal_id carries: an id, or a path.
CmdRefs == {[id |-> 1, path |-> NoPath], [id |-> 2, path |-> NoPath],
            [id |-> NoId, path |-> "A"]}

Free == <<"free", 0>>

\* The caller thread is between calls, or inside the joins of <<call, step>>.
Ready == <<"none", "ready">>

VARIABLES
    connected_,               \* bool connected_
    running_,                 \* std::atomic<bool> running_
    actuator_paths_,          \* std::vector<std::string>
    id_to_path_,              \* std::map<int32_t, std::string>, as a set of <<id, path>>
    path_to_id_,              \* std::map<std::string, int32_t>, as a set of <<path, id>>
    actuation_callback_,      \* whether a callback is registered
    actuation_queue_,         \* std::queue<ActuationRequest>
    publish_queue_,           \* std::queue<PublishRequest>
    promise,                  \* shared state of provide_response_promise_: "unset", "true", "false"
    actuators_mutex_,         \* holder of each mutex, or Free
    actuation_mutex_,
    publish_mutex_,
    stream_write_mutex_,
    actuation_worker_thread_, \* generation of the joinable thread the handle holds, 0 if none
    stream_thread_,
    pcCaller,                 \* where the caller thread is inside stop()/disconnect()
    pcAW, pcST, pcRT, pcWT,   \* per generation: where each thread is
    batch,                    \* receive worker: commands of the batch still to handle
    cur,                      \* receive worker: the command being acknowledged and queued
    wreq,                     \* publish writer: the request popped and being sent
    areq,                     \* actuation worker: the request its callback is running on
    stream,                   \* "none", "open", "broken" (ended by the databroker)
    terminated,               \* "no", or why std::terminate ended the process
    budget,                   \* the element of Budgets this run stays within
    metadata,                 \* the databroker's signal tree: the id it lists for each path
    \* ---- history, read by the properties only
    hs,                       \* the claim handshake of the last start()
    last_stop,                \* what the last stop() since start() did: "never", "noop", "joined"
    nStart, nCmd, nPub,
    confirms,                 \* confirmation frames read on the current stream
    nDelivered,               \* the number of the last command whose callback began
    nTaken,                   \* the number of the last publish request the writer took
    pubWritten,               \* publish frame writes issued
    pubDropped,               \* publish requests given up for want of a signal id
    last_conn,                \* the last connect()/disconnect() to return: "none",
                              \* "connect_true", "connect_false", "disconnect"
    ret,                      \* what the last connect() or provide_actuators() returned
    claims,                   \* per generation: the path lists of the claim frames written
    lastPub,                  \* the number of the request of the last publish frame written
    lastFrame                 \* the value in the last publish frame written

vars == <<connected_, running_, actuator_paths_, id_to_path_, path_to_id_,
          actuation_callback_, actuation_queue_, publish_queue_, promise,
          actuators_mutex_, actuation_mutex_, publish_mutex_, stream_write_mutex_,
          actuation_worker_thread_, stream_thread_, pcCaller, pcAW, pcST, pcRT, pcWT,
          batch, cur, wreq, areq, stream, terminated, budget, metadata,
          hs, last_stop, nStart, nCmd, nPub, confirms,
          nDelivered, nTaken, pubWritten, pubDropped, last_conn, ret,
          claims, lastPub, lastFrame>>

catalogVars == <<actuator_paths_, id_to_path_, path_to_id_>>
mutexVars   == <<actuators_mutex_, actuation_mutex_, publish_mutex_, stream_write_mutex_>>
handleVars  == <<actuation_worker_thread_, stream_thread_>>
pcVars      == <<pcAW, pcST, pcRT, pcWT>>
localVars   == <<batch, cur, wreq, areq>>
countVars   == <<budget, metadata, nStart, nCmd, nPub>>
histVars    == <<hs, last_stop, confirms, nDelivered, nTaken, pubWritten,
                 pubDropped>>
apiVars     == <<last_conn, ret>>
frameVars   == <<claims, lastPub, lastFrame>>

\* The state of the client facade (VSSClient::Impl).
VARIABLES
    client_connected_,        \* bool connected_
    client_running_,          \* std::atomic<bool> running_
    subscriptions_,           \* std::map<std::string, std::function>, as a set of <<path, callback>>
    subscriptions_mutex_,     \* holder of the mutex, or Free
    subscription_thread_,     \* generation of the joinable thread the handle holds, 0 if none
    pcClient,                 \* the caller thread: "ready", "initial", "cb", "join"
    todo,                     \* start_subscriptions: the paths whose initial get is still to come
    carg,                     \* start_subscriptions: what the callback it called is running on
    pcSub,                    \* per generation: where the read thread is
    request,                  \* per generation: the signal_paths of the SubscribeRequest sent
    substream,                \* per generation: "none", "open", "ended"
    entries,                  \* per generation: entries of the response still to handle
    sarg,                     \* per generation: what the callback handle_update called is running on
    client_terminated,        \* std::terminate ended the process
    \* ---- history, read by the properties only
    client_last_conn,         \* the last connect()/disconnect() to return, as last_conn
    client_ret,               \* what the last connect() returned
    nClientStart,             \* read threads spawned
    started_with,             \* per generation: the paths registered when its
                              \* start_subscriptions() was called
    nFrames,                  \* responses read
    nStreamCb                 \* per generation: callbacks handle_update has called

clientVars == <<client_connected_, client_running_, subscriptions_,
                subscriptions_mutex_, subscription_thread_, pcClient, todo, carg,
                pcSub, request, substream, entries, sarg, client_terminated,
                client_last_conn, client_ret, nClientStart, started_with, nFrames, nStreamCb>>

clientFlagVars == <<client_connected_, client_running_>>
clientCallerVars == <<pcClient, todo, carg>>
clientThreadVars == <<pcSub, request, substream, entries, sarg>>
clientHistVars == <<client_last_conn, client_ret, nClientStart, started_with, nFrames, nStreamCb>>

allVars == <<vars, clientVars>>

\* The bool a call returned, as the history variables ret and client_ret
\* record it ("none" before any call has returned).
Returned(b) == IF b THEN "true" ELSE "false"

\* An ActuationRequest {path, signal_id}; n numbers it in arrival order,
\* acked tells whether its acknowledgement write has been issued, and gen is
\* the generation of the receive worker that read it.
NoCmd == [n |-> 0, id |-> NoId, path |-> NoPath, acked |-> FALSE, gen |-> 0,
          value |-> DefaultValue]
NoReq == [k |-> 0, path |-> NoPath, value |-> DefaultValue]

\* ------------------------------------------------------------ construction
\* Impl(address): connected_(false), running_(false); everything else is
\* default-constructed.
ProviderInit ==
    /\ connected_ = FALSE
    /\ running_ = FALSE
    /\ actuator_paths_ = <<>>
    /\ id_to_path_ = {}
    /\ path_to_id_ = {}
    /\ actuation_callback_ = FALSE
    /\ actuation_queue_ = <<>>
    /\ publish_queue_ = <<>>
    /\ promise = "unset"
    /\ actuators_mutex_ = Free /\ actuation_mutex_ = Free
    /\ publish_mutex_ = Free /\ stream_write_mutex_ = Free
    /\ actuation_worker_thread_ = 0 /\ stream_thread_ = 0
    /\ pcCaller = Ready
    /\ pcAW = [g \in Gens |-> "new"] /\ pcST = [g \in Gens |-> "new"]
    /\ pcRT = [g \in Gens |-> "new"] /\ pcWT = [g \in Gens |-> "new"]
    /\ batch = [g \in Gens |-> <<>>] /\ cur = [g \in Gens |-> NoCmd]
    /\ wreq = [g \in Gens |-> NoReq] /\ areq = [g \in Gens |-> NoCmd]
    /\ stream = "none"
    /\ terminated = "no"
    /\ metadata = InitialTree
    /\ hs = "none" /\ last_stop = "never"
    /\ nStart = 0 /\ nCmd = 0 /\ nPub = 0
    /\ confirms = 0
    /\ nDelivered = 0 /\ nTaken = 0
    /\ pubWritten = 0 /\ pubDropped = 0
    /\ last_conn = "none" /\ ret = "none"
    /\ claims = [g \in Gens |-> <<>>] /\ lastPub = 0 /\ lastFrame = EmptyProto

\* ---------------------------------------------------------------- helpers
\* std::map::operator[]= : insert or overwrite the entry of key k.
MapPut(m, k, v) == {e \in m : e[1] # k} \cup {<<k, v>>}

\* find_path_for_id: the path of the id, "" when the id is not in the map.
find_path_for_id(signal_id) ==
    IF \E e \in id_to_path_ : e[1] = signal_id
    THEN (CHOOSE e \in id_to_path_ : e[1] = signal_id)[2]
    ELSE NoPath

\* get_signal_id_for_path: the id of the path, -1 when the path is not in the map.
get_signal_id_for_path(path) ==
    IF \E e \in path_to_id_ : e[1] = path
    THEN (CHOOSE e \in path_to_id_ : e[1] = path)[2]
    ELSE NoId

\* query_signal_id: -1 when not connected, else the id of the metadata entry
\* whose path matches, -1 when the databroker lists none.
query_signal_id(path) ==
    IF ~connected_ THEN NoId
    ELSE metadata[path]

\* The loop of provide_actuators as it would be if it entered every path in
\* the maps, with whatever id the query gave.
RECURSIVE ProvideMaps_All(_, _, _)
ProvideMaps_All(paths, i2p, p2i) ==
    IF paths = <<>> THEN <<i2p, p2i>>
    ELSE LET path == Head(paths)
             signal_id == query_signal_id(path)
         IN  ProvideMaps_All(Tail(paths), MapPut(i2p, signal_id, path),
                             MapPut(p2i, path, signal_id))

\* The loop of provide_actuators over its paths: each path whose id the
\* databroker resolves (>= 0) is entered in both maps.
RECURSIVE ProvideMaps(_, _, _)
ProvideMaps(paths, i2p, p2i) ==
    IF paths = <<>> THEN <<i2p, p2i>>
    ELSE LET path == Head(paths)
             signal_id == query_signal_id(path)
         IN  IF signal_id >= 0
             THEN ProvideMaps(Tail(paths), MapPut(i2p, signal_id, path),
                              MapPut(p2i, path, signal_id))
             ELSE ProvideMaps(Tail(paths), i2p, p2i)

\* condition_variable::notify_one / notify_all: the one thread that can wait
\* on each condition leaves its wait and has to take the mutex again.
Woken(pcs) == [g \in Gens |-> IF pcs[g] = "wait" THEN "relock" ELSE pcs[g]]

\* stream->Write(frame): false on a stream the databroker has ended.
WriteOk == stream = "open"

\* The threads inside stream->Write at this moment.
Writers ==
    {<<"st", g>> : g \in {h \in Gens : pcST[h] = "claim_write"}}
    \cup {<<"rt", g>> : g \in {h \in Gens : pcRT[h] = "ack_write"}}
    \cup {<<"wt", g>> : g \in {h \in Gens : pcWT[h] = "pub_write"}}

\* The run uses the provider, and std::terminate has not ended its process.
Alive == budget.side = "provider" /\ terminated = "no"
\* ------------------------------------------------------- the caller thread
\* What connect() sees: whether channel->WaitForConnected(deadline) succeeds,
\* and the grpc::Status of the probe call that follows.
ChannelStates == {"ready", "unreachable"}
ProbeStatuses == {"OK", "NOT_FOUND", "INTERNAL", "UNAVAILABLE", "DEADLINE_EXCEEDED"}

\* The ways a connect() call can go: the channel wait fails and no probe is
\* made (its status is then "OK", the value of a Status never assigned), or
\* the channel is ready and the probe ends with one of the statuses.
ConnectAttempts ==
    {<<"unreachable", "OK">>} \cup {<<"ready", status>> : status \in ProbeStatuses}

\* connect() as it would be if every probe status other than OK failed it.
ConnectResult_OkOnly(channel, status) ==
    channel = "ready" /\ status = "OK"

\* connect(): false when the channel wait fails, and when the ListMetadata
\* probe is not ok with UNAVAILABLE or DEADLINE_EXCEEDED; true otherwise.
ConnectResult(channel, status) ==
    IF channel # "ready" THEN FALSE
    ELSE IF status # "OK" /\ status \in {"UNAVAILABLE", "DEADLINE_EXCEEDED"}
    THEN FALSE
    ELSE TRUE

\* connect(): connected_ is assigned what the call returns. After the first
\* start() the application connects again only once it is disconnected.
Connect(channel, status) ==
    /\ Alive /\ pcCaller = Ready
    /\ nStart = 0 \/ (budget.conn /\ ~connected_)
    /\ connected_' = ConnectResult(channel, status)
    /\ ret' = Returned(ConnectResult(channel, status))
    /\ last_conn' = IF ConnectResult(channel, status)
                    THEN "connect_true" ELSE "connect_false"
    /\ UNCHANGED <<running_, catalogVars, actuation_callback_, actuation_queue_,
                   publish_queue_, promise, mutexVars, handleVars, pcCaller, pcVars,
                   localVars, stream, terminated, countVars, histVars>>
    /\ UNCHANGED <<frameVars, clientVars>>

\* provide_actuators(paths), under actuators_mutex_: every path is appended to
\* actuator_paths_, and the call returns true.
ProvideActuators(paths) ==
    /\ Alive /\ pcCaller = Ready
    /\ nStart = 0
    /\ Len(actuator_paths_) + Len(paths) <= budget.provide
    /\ \A i \in 1..Len(paths) : paths[i] \in budget.paths
    /\ actuators_mutex_ = Free
    /\ actuator_paths_' = actuator_paths_ \o paths
    /\ id_to_path_' = ProvideMaps(paths, id_to_path_, path_to_id_)[1]
    /\ path_to_id_' = ProvideMaps(paths, id_to_path_, path_to_id_)[2]
    /\ ret' = Returned(TRUE)
    /\ UNCHANGED last_conn
    /\ UNCHANGED <<connected_, running_, actuation_callback_, actuation_queue_,
                   publish_queue_, promise, mutexVars, handleVars, pcCaller, pcVars,
                   localVars, stream, terminated, countVars, histVars>>
    /\ UNCHANGED <<frameVars, clientVars>>

\* on_actuate_request(callback). The std::function is written without any
\* lock, so the call is made while no worker thread exists.
OnActuateRequest ==
    /\ Alive /\ pcCaller = Ready
    /\ nStart = 0
    /\ ~actuation_callback_
    /\ actuation_callback_' = TRUE
    /\ UNCHANGED <<connected_, running_, catalogVars, actuation_queue_,
                   publish_queue_, promise, mutexVars, handleVars, pcCaller, pcVars,
                   localVars, stream, terminated, countVars, histVars>>
    /\ UNCHANGED <<apiVars, frameVars, clientVars>>

\* publish_actual_value(path, value), from any thread: push and notify_one
\* under publish_mutex_. Request k is the k-th call.
PublishActual(path) ==
    /\ Alive /\ nPub < budget.pubs
    /\ path \in budget.pubpaths[nPub + 1]
    /\ publish_mutex_ = Free
    /\ nPub' = nPub + 1
    /\ publish_queue_' = Append(publish_queue_,
                                [k |-> nPub + 1, path |-> path,
                                 value |-> [kind |-> budget.pubkinds[nPub + 1], val |-> 1]])
    /\ pcWT' = Woken(pcWT)
    /\ UNCHANGED <<connected_, running_, catalogVars, actuation_callback_,
                   actuation_queue_, promise, mutexVars, handleVars, pcCaller,
                   pcAW, pcST, pcRT, localVars, stream, terminated,
                   budget, metadata, nStart, nCmd, histVars>>
    /\ UNCHANGED <<apiVars, frameVars, clientVars>>

\* start() as it would be if the old threads were detached instead of the
\* assignment ending the process: new threads whatever the handles hold.
Spawn_Detaching ==
    /\ nStart' = nStart + 1
    /\ actuation_worker_thread_' = nStart + 1
    /\ stream_thread_' = nStart + 1
    /\ pcAW' = [pcAW EXCEPT ![nStart + 1] = "loop"]
    /\ pcST' = [pcST EXCEPT ![nStart + 1] = "open"]
    /\ hs' = "pending"
    /\ last_stop' = "never"
    /\ UNCHANGED terminated

\* start(): returns at once when running or not connected; otherwise sets the
\* flag and move-assigns the two thread handles. Assigning to a handle that is
\* still joinable is std::terminate.
Spawn ==
    IF actuation_worker_thread_ # 0 \/ stream_thread_ # 0
    THEN /\ terminated' = "thread_assign"
         /\ UNCHANGED <<handleVars, pcAW, pcST, nStart, hs, last_stop>>
    ELSE /\ nStart' = nStart + 1
         /\ actuation_worker_thread_' = nStart + 1
         /\ stream_thread_' = nStart + 1
         /\ pcAW' = [pcAW EXCEPT ![nStart + 1] = "loop"]
         /\ pcST' = [pcST EXCEPT ![nStart + 1] = "open"]
         /\ hs' = "pending"
         /\ last_stop' = "never"
         /\ UNCHANGED terminated

\* start() as it would be without its two early returns.
Start_Unguarded ==
    /\ Alive /\ pcCaller = Ready
    /\ nStart < budget.starts
    /\ running_' = TRUE
    /\ Spawn
    /\ UNCHANGED <<connected_, catalogVars, actuation_callback_, actuation_queue_,
                   publish_queue_, promise, mutexVars, pcCaller, pcRT, pcWT,
                   localVars, stream, budget, metadata, nCmd, nPub, confirms,
                   nDelivered, nTaken, pubWritten, pubDropped>>
    /\ UNCHANGED <<apiVars, frameVars, clientVars>>

Start ==
    /\ Alive /\ pcCaller = Ready
    /\ ~running_ /\ connected_
    /\ nStart < budget.starts
    /\ running_' = TRUE
    /\ Spawn
    /\ UNCHANGED <<connected_, catalogVars, actuation_callback_, actuation_queue_,
                   publish_queue_, promise, mutexVars, pcCaller, pcRT, pcWT,
                   localVars, stream, budget, metadata, nCmd, nPub, confirms,
                   nDelivered, nTaken, pubWritten, pubDropped>>
    /\ UNCHANGED <<apiVars, frameVars, clientVars>>

\* start() while running, or while not connected: logs and returns.
StartRefused ==
    /\ Alive /\ pcCaller = Ready
    /\ running_ \/ ~connected_
    /\ UNCHANGED vars
    /\ UNCHANGED clientVars

\* stop(), and disconnect() which is stop() followed by connected_ = false.
\* Not running: return. Otherwise clear the flag, notify_all on both
\* conditions, then join the two handles.
StopBegin(op) ==
    /\ Alive /\ pcCaller = Ready
    /\ op = "disc" => (nStart = 0 \/ budget.conn)
    /\ IF ~running_
       THEN /\ last_stop' = "noop"
            /\ connected_' = IF op = "disc" THEN FALSE ELSE connected_
            /\ last_conn' = IF op = "disc" THEN "disconnect" ELSE last_conn
            /\ UNCHANGED <<running_, pcCaller, pcAW, pcWT>>
       ELSE /\ running_' = FALSE
            /\ pcAW' = Woken(pcAW)
            /\ pcWT' = Woken(pcWT)
            /\ pcCaller' = <<op, "join_aw">>
            /\ UNCHANGED <<connected_, last_stop, last_conn>>
    /\ UNCHANGED ret
    /\ UNCHANGED <<catalogVars, actuation_callback_, actuation_queue_, publish_queue_,
                   promise, mutexVars, handleVars, pcST, pcRT, localVars, stream,
                   terminated, countVars, hs, confirms, nDelivered, nTaken, pubWritten, pubDropped>>
    /\ UNCHANGED <<frameVars, clientVars>>

\* if (actuation_worker_thread_.joinable()) actuation_worker_thread_.join();
JoinActuationWorker ==
    /\ Alive /\ pcCaller[2] = "join_aw"
    /\ IF actuation_worker_thread_ = 0
       THEN UNCHANGED <<actuation_worker_thread_, pcAW>>
       ELSE /\ pcAW[actuation_worker_thread_] = "done"
            /\ pcAW' = [pcAW EXCEPT ![actuation_worker_thread_] = "joined"]
            /\ actuation_worker_thread_' = 0
    /\ pcCaller' = <<pcCaller[1], "join_st">>
    /\ UNCHANGED <<connected_, running_, catalogVars, actuation_callback_,
                   actuation_queue_, publish_queue_, promise, mutexVars, stream_thread_,
                   pcST, pcRT, pcWT, localVars, stream, terminated, countVars,
                   histVars>>
    /\ UNCHANGED <<apiVars, frameVars, clientVars>>

\* if (stream_thread_.joinable()) stream_thread_.join(); and stop() returns.
JoinStreamThread ==
    /\ Alive /\ pcCaller[2] = "join_st"
    /\ IF stream_thread_ = 0
       THEN UNCHANGED <<stream_thread_, pcST>>
       ELSE /\ pcST[stream_thread_] = "done"
            /\ pcST' = [pcST EXCEPT ![stream_thread_] = "joined"]
            /\ stream_thread_' = 0
    /\ connected_' = IF pcCaller[1] = "disc" THEN FALSE ELSE connected_
    /\ last_conn' = IF pcCaller[1] = "disc" THEN "disconnect" ELSE last_conn
    /\ UNCHANGED ret
    /\ last_stop' = "joined"
    /\ pcCaller' = Ready
    /\ UNCHANGED <<running_, catalogVars, actuation_callback_, actuation_queue_,
                   publish_queue_, promise, mutexVars, actuation_worker_thread_,
                   pcAW, pcRT, pcWT, localVars, stream, terminated, countVars,
                   hs, confirms, nDelivered,
                   nTaken, pubWritten, pubDropped>>
    /\ UNCHANGED <<frameVars, clientVars>>

\* ------------------------------------------------- actuation_worker (g)
\* The request popped from the queue goes to the callback, if there is one.
Dispatch(g, req) ==
    IF actuation_callback_
    THEN /\ pcAW' = [pcAW EXCEPT ![g] = "cb"]
         /\ areq' = [areq EXCEPT ![g] = req]
         /\ nDelivered' = req.n
    ELSE /\ pcAW' = [pcAW EXCEPT ![g] = "loop"]
         /\ UNCHANGED <<areq, nDelivered>>

\* The worker as it would be if it took the newest request, not the oldest.
AW_Predicate_Newest(g) ==
    IF ~(actuation_queue_ # <<>> \/ ~running_)
    THEN /\ actuation_mutex_' = <<"aw", g>>
         /\ pcAW' = [pcAW EXCEPT ![g] = "block"]
         /\ UNCHANGED <<actuation_queue_, areq, nDelivered>>
    ELSE /\ actuation_mutex_' = Free
         /\ IF ~running_
            THEN /\ pcAW' = [pcAW EXCEPT ![g] = "done"]
                 /\ UNCHANGED <<actuation_queue_, areq, nDelivered>>
            ELSE /\ actuation_queue_' =
                        SubSeq(actuation_queue_, 1, Len(actuation_queue_) - 1)
                 /\ Dispatch(g, actuation_queue_[Len(actuation_queue_)])

\* actuation_cv_.wait(lock, pred) with the mutex just taken: the predicate
\* (!queue.empty() || !running_) is evaluated with the mutex held. False: the
\* thread goes on to block, still holding the mutex. True: if (!running_)
\* break; otherwise the front request is popped, the mutex released and the
\* callback called.
AW_Predicate(g) ==
    IF ~(actuation_queue_ # <<>> \/ ~running_)
    THEN /\ actuation_mutex_' = <<"aw", g>>
         /\ pcAW' = [pcAW EXCEPT ![g] = "block"]
         /\ UNCHANGED <<actuation_queue_, areq, nDelivered>>
    ELSE /\ actuation_mutex_' = Free
         /\ IF ~running_
            THEN /\ pcAW' = [pcAW EXCEPT ![g] = "done"]
                 /\ UNCHANGED <<actuation_queue_, areq, nDelivered>>
            ELSE /\ actuation_queue_' = Tail(actuation_queue_)
                 /\ Dispatch(g, Head(actuation_queue_))

\* while (running_) { unique_lock lock(actuation_mutex_); wait(lock, pred); ...
AW_Loop(g) ==
    /\ Alive /\ pcAW[g] = "loop"
    /\ IF running_
       THEN /\ actuation_mutex_ = Free
            /\ AW_Predicate(g)
       ELSE /\ pcAW' = [pcAW EXCEPT ![g] = "done"]
            /\ UNCHANGED <<actuation_mutex_, actuation_queue_, areq, nDelivered>>
    /\ UNCHANGED <<connected_, running_, catalogVars, actuation_callback_,
                   publish_queue_, promise, actuators_mutex_, publish_mutex_,
                   stream_write_mutex_, handleVars, pcCaller, pcST, pcRT, pcWT,
                   batch, cur, wreq, stream, terminated, countVars,
                   hs, last_stop, confirms, nTaken, pubWritten, pubDropped>>
    /\ UNCHANGED <<apiVars, frameVars, clientVars>>

\* The wait proper: the mutex is released and the thread blocks until notified.
AW_Block(g) ==
    /\ Alive /\ pcAW[g] = "block"
    /\ actuation_mutex_' = Free
    /\ pcAW' = [pcAW EXCEPT ![g] = "wait"]
    /\ UNCHANGED <<connected_, running_, catalogVars, actuation_callback_,
                   actuation_queue_, publish_queue_, promise, actuators_mutex_,
                   publish_mutex_, stream_write_mutex_, handleVars, pcCaller,
                   pcST, pcRT, pcWT, localVars, stream, terminated, countVars,
                   histVars>>
    /\ UNCHANGED <<apiVars, frameVars, clientVars>>

\* Notified: the wait takes the mutex again and evaluates the predicate again.
AW_Relock(g) ==
    /\ Alive /\ pcAW[g] = "relock"
    /\ actuation_mutex_ = Free
    /\ AW_Predicate(g)
    /\ UNCHANGED <<connected_, running_, catalogVars, actuation_callback_,
                   publish_queue_, promise, actuators_mutex_, publish_mutex_,
                   stream_write_mutex_, handleVars, pcCaller, pcST, pcRT, pcWT,
                   batch, cur, wreq, stream, terminated, countVars,
                   hs, last_stop, confirms, nTaken, pubWritten, pubDropped>>
    /\ UNCHANGED <<apiVars, frameVars, clientVars>>

\* The user callback returns.
AW_Return(g) ==
    /\ Alive /\ pcAW[g] = "cb"
    /\ pcAW' = [pcAW EXCEPT ![g] = "loop"]
    /\ areq' = [areq EXCEPT ![g] = NoCmd]
    /\ UNCHANGED <<connected_, running_, catalogVars, actuation_callback_,
                   actuation_queue_, publish_queue_, promise, mutexVars, handleVars,
                   pcCaller, pcST, pcRT, pcWT, batch, cur, wreq, stream,
                   terminated, countVars, hs, last_stop, confirms, 
                   nDelivered, nTaken, pubWritten, pubDropped>>
    /\ UNCHANGED <<apiVars, frameVars, clientVars>>
\* ------------------------------------------------ provider_stream_loop (g)
\* OpenProviderStream; a null stream clears the flag and returns. Otherwise a
\* new promise/future pair is made and the read and write threads are
\* started, before the claim is sent.
ST_Open(g, opened) ==
    /\ Alive /\ pcST[g] = "open"
    /\ IF ~opened
       THEN /\ running_' = FALSE
            /\ pcST' = [pcST EXCEPT ![g] = "done"]
            /\ hs' = "open_failed"
            /\ UNCHANGED <<promise, pcRT, pcWT, stream, confirms>>
       ELSE /\ stream' = "open"
            /\ promise' = "unset"
            /\ confirms' = 0
            /\ pcRT' = [pcRT EXCEPT ![g] = "loop"]
            /\ pcWT' = [pcWT EXCEPT ![g] = "loop"]
            /\ pcST' = [pcST EXCEPT ![g] = "claim"]
            /\ UNCHANGED <<running_, hs>>
    /\ UNCHANGED <<connected_, catalogVars, actuation_callback_, actuation_queue_,
                   publish_queue_, mutexVars, handleVars, pcCaller, pcAW, localVars,
                   terminated, countVars, last_stop, nDelivered,
                   nTaken, pubWritten, pubDropped>>
    /\ UNCHANGED <<apiVars, frameVars, clientVars>>

\* send_provide_actuation_async: lock actuators_mutex_, build the request from
\* actuator_paths_, lock stream_write_mutex_.
ST_ClaimLock(g) ==
    /\ Alive /\ pcST[g] = "claim"
    /\ actuators_mutex_ = Free /\ stream_write_mutex_ = Free
    /\ actuators_mutex_' = <<"st", g>>
    /\ stream_write_mutex_' = <<"st", g>>
    /\ pcST' = [pcST EXCEPT ![g] = "claim_write"]
    /\ UNCHANGED <<connected_, running_, catalogVars, actuation_callback_,
                   actuation_queue_, publish_queue_, promise, actuation_mutex_,
                   publish_mutex_, handleVars, pcCaller, pcAW, pcRT, pcWT, localVars,
                   stream, terminated, countVars, histVars>>
    /\ UNCHANGED <<apiVars, frameVars, clientVars>>

\* The handshake failed: running_ = false, notify_all on both conditions, and
\* on to the joins of the read and write threads.
HandshakeFailed(g, why) ==
    /\ running_' = FALSE
    /\ pcAW' = Woken(pcAW)
    /\ pcWT' = Woken(pcWT)
    /\ pcST' = [pcST EXCEPT ![g] = "fail_join_r"]
    /\ hs' = why

\* The path has an entry in path_to_id_.
HasId(path) == get_signal_id_for_path(path) >= 0

\* send_provide_actuation_async as it would be if the claim listed only the
\* paths that have a resolved id.
ST_ClaimWrite_ResolvedOnly(g) ==
    /\ Alive /\ pcST[g] = "claim_write"
    /\ actuators_mutex_' = Free
    /\ stream_write_mutex_' = Free
    /\ claims' = [claims EXCEPT ![g] = Append(claims[g], SelectSeq(actuator_paths_, HasId))]
    /\ IF WriteOk
       THEN /\ pcST' = [pcST EXCEPT ![g] = "wait"]
            /\ UNCHANGED <<running_, pcAW, pcWT, hs>>
       ELSE HandshakeFailed(g, "write_failed")
    /\ UNCHANGED <<connected_, catalogVars, actuation_callback_, actuation_queue_,
                   publish_queue_, promise, actuation_mutex_, publish_mutex_,
                   handleVars, pcCaller, pcRT, localVars, stream, terminated,
                   countVars, last_stop, confirms, nDelivered,
                   nTaken, pubWritten, pubDropped>>
    /\ UNCHANGED <<apiVars, lastPub, lastFrame, clientVars>>

\* stream->Write(request) of the claim, which lists actuator_paths_; both
\* locks are released on return. A failed write is a failed handshake.
ST_ClaimWrite(g) ==
    /\ Alive /\ pcST[g] = "claim_write"
    /\ actuators_mutex_' = Free
    /\ stream_write_mutex_' = Free
    /\ claims' = [claims EXCEPT ![g] = Append(claims[g], actuator_paths_)]
    /\ IF WriteOk
       THEN /\ pcST' = [pcST EXCEPT ![g] = "wait"]
            /\ UNCHANGED <<running_, pcAW, pcWT, hs>>
       ELSE HandshakeFailed(g, "write_failed")
    /\ UNCHANGED <<connected_, catalogVars, actuation_callback_, actuation_queue_,
                   publish_queue_, promise, actuation_mutex_, publish_mutex_,
                   handleVars, pcCaller, pcRT, localVars, stream, terminated,
                   countVars, last_stop, confirms, nDelivered,
                   nTaken, pubWritten, pubDropped>>
    /\ UNCHANGED <<apiVars, lastPub, lastFrame, clientVars>>

\* The wait as it would be if its result were not looked at: on to the
\* streaming phase whatever the outcome.
ST_Wait_Unchecked(g) ==
    /\ Alive /\ pcST[g] = "wait"
    /\ pcST' = [pcST EXCEPT ![g] = "join_r"]
    /\ hs' = "confirmed"
    /\ UNCHANGED <<running_, pcAW, pcWT>>
    /\ UNCHANGED <<connected_, catalogVars, actuation_callback_, actuation_queue_,
                   publish_queue_, promise, mutexVars, handleVars, pcCaller, pcRT,
                   localVars, stream, terminated, countVars, last_stop, confirms,
                   nDelivered, nTaken, pubWritten, pubDropped>>
    /\ UNCHANGED <<apiVars, frameVars, clientVars>>

\* provide_response_future_.wait_for(5 s) and get(): with the outcome still
\* unset the wait can time out; an outcome of false is a failed handshake;
\* true goes on to the joins of the streaming phase.
ST_Wait(g) ==
    /\ Alive /\ pcST[g] = "wait"
    /\ IF promise = "unset" THEN HandshakeFailed(g, "timeout")
       ELSE IF promise = "false" THEN HandshakeFailed(g, "rejected")
       ELSE /\ pcST' = [pcST EXCEPT ![g] = "join_r"]
            /\ hs' = "confirmed"
            /\ UNCHANGED <<running_, pcAW, pcWT>>
    /\ UNCHANGED <<connected_, catalogVars, actuation_callback_, actuation_queue_,
                   publish_queue_, promise, mutexVars, handleVars, pcCaller, pcRT,
                   localVars, stream, terminated, countVars, last_stop, confirms,
                   nDelivered, nTaken, pubWritten, pubDropped>>
    /\ UNCHANGED <<apiVars, frameVars, clientVars>>

\* read_thread.join()
ST_JoinRead(g) ==
    /\ Alive /\ pcST[g] \in {"join_r", "fail_join_r"}
    /\ pcRT[g] = "done"
    /\ pcRT' = [pcRT EXCEPT ![g] = "joined"]
    /\ pcST' = [pcST EXCEPT ![g] = IF pcST[g] = "join_r" THEN "join_w" ELSE "fail_join_w"]
    /\ UNCHANGED <<connected_, running_, catalogVars, actuation_callback_,
                   actuation_queue_, publish_queue_, promise, mutexVars, handleVars,
                   pcCaller, pcAW, pcWT, localVars, stream, terminated, countVars,
                   histVars>>
    /\ UNCHANGED <<apiVars, frameVars, clientVars>>

\* The streaming phase as it would be if the write thread were detached
\* instead of joined: on to the close whatever the writer is doing.
ST_JoinWrite_Detached(g) ==
    /\ Alive /\ pcST[g] \in {"join_w", "fail_join_w"}
    /\ UNCHANGED pcWT
    /\ IF pcST[g] = "join_w"
       THEN /\ pcST' = [pcST EXCEPT ![g] = "close"]
            /\ UNCHANGED stream
       ELSE /\ pcST' = [pcST EXCEPT ![g] = "done"]
            /\ stream' = "none"
    /\ UNCHANGED <<connected_, running_, catalogVars, actuation_callback_,
                   actuation_queue_, publish_queue_, promise, mutexVars, handleVars,
                   pcCaller, pcAW, pcRT, localVars, terminated, countVars,
                   histVars>>
    /\ UNCHANGED <<apiVars, frameVars, clientVars>>

\* write_thread.join(); on the failure path the function then returns and the
\* stream and its context are destroyed.
ST_JoinWrite(g) ==
    /\ Alive /\ pcST[g] \in {"join_w", "fail_join_w"}
    /\ pcWT[g] = "done"
    /\ pcWT' = [pcWT EXCEPT ![g] = "joined"]
    /\ IF pcST[g] = "join_w"
       THEN /\ pcST' = [pcST EXCEPT ![g] = "close"]
            /\ UNCHANGED stream
       ELSE /\ pcST' = [pcST EXCEPT ![g] = "done"]
            /\ stream' = "none"
    /\ UNCHANGED <<connected_, running_, catalogVars, actuation_callback_,
                   actuation_queue_, publish_queue_, promise, mutexVars, handleVars,
                   pcCaller, pcAW, pcRT, localVars, terminated, countVars,
                   histVars>>
    /\ UNCHANGED <<apiVars, frameVars, clientVars>>

\* stream->WritesDone(); stream->Finish(); and the function returns.
ST_Close(g) ==
    /\ Alive /\ pcST[g] = "close"
    /\ stream' = "none"
    /\ pcST' = [pcST EXCEPT ![g] = "done"]
    /\ UNCHANGED <<connected_, running_, catalogVars, actuation_callback_,
                   actuation_queue_, publish_queue_, promise, mutexVars, handleVars,
                   pcCaller, pcAW, pcRT, pcWT, localVars, terminated,
                   countVars, histVars>>
    /\ UNCHANGED <<apiVars, frameVars, clientVars>>
\* ---------------------------------------------------------- receive_loop (g)
\* The end of the receive loop as it would be without the set_value(false).
RT_End_Unresolved(g) ==
    /\ UNCHANGED promise
    /\ pcRT' = [pcRT EXCEPT ![g] = "done"]

\* After the loop: set_value(false), the future_error of an outcome already
\* set being caught.
RT_End(g) ==
    /\ promise' = IF promise = "unset" THEN "false" ELSE promise
    /\ pcRT' = [pcRT EXCEPT ![g] = "done"]

\* while (running_ && ...: the flag is read first.
RT_Loop(g) ==
    /\ Alive /\ pcRT[g] = "loop"
    /\ IF running_
       THEN /\ pcRT' = [pcRT EXCEPT ![g] = "read"]
            /\ UNCHANGED promise
       ELSE RT_End(g)
    /\ UNCHANGED <<connected_, running_, catalogVars, actuation_callback_,
                   actuation_queue_, publish_queue_, mutexVars, handleVars, pcCaller,
                   pcAW, pcST, pcWT, localVars, stream, terminated, countVars,
                   histVars>>
    /\ UNCHANGED <<apiVars, frameVars, clientVars>>

\* The frame read is an ownership confirmation: set_value(true), which throws
\* future_error out of the thread function when the outcome is already set.
OnConfirmation(g) ==
    /\ confirms' = confirms + 1
    /\ IF promise = "unset"
       THEN /\ promise' = "true"
            /\ pcRT' = [pcRT EXCEPT ![g] = "loop"]
            /\ UNCHANGED terminated
       ELSE /\ terminated' = "future_error"
            /\ UNCHANGED <<promise, pcRT>>
    /\ UNCHANGED batch

\* The id of a command: its id field if it has one, else the catalog's id of
\* its path, else 0.
CommandId(c) ==
    IF c.id # NoId THEN c.id
    ELSE IF c.path # NoPath THEN get_signal_id_for_path(c.path)
    ELSE 0

\* How many commands of a batch resolve to a path of the catalog.
OwnedIn(refs) ==
    Cardinality({i \in 1..Len(refs) : find_path_for_id(CommandId(refs[i])) # NoPath})

\* ... stream->Read(&response)) returns a frame the databroker sent while the
\* stream was open: a ProvideActuationResponse, a BatchActuateStreamRequest
\* with commands refs, or a frame that is only logged (PublishValuesResponse,
\* unexpected).
RT_Read(g, kind, refs) ==
    /\ Alive /\ pcRT[g] = "read"
    /\ stream \in {"open", "broken"}
    /\ IF kind = "confirm" THEN OnConfirmation(g)
       ELSE IF kind = "batch"
       THEN /\ Len(refs) <= budget.batch
            /\ nCmd < budget.cmds /\ nCmd + OwnedIn(refs) <= budget.cmds
            /\ batch' = [batch EXCEPT ![g] = refs]
            /\ pcRT' = [pcRT EXCEPT ![g] = "cmd"]
            /\ UNCHANGED <<promise, terminated, confirms>>
       ELSE /\ pcRT' = [pcRT EXCEPT ![g] = "loop"]
            /\ UNCHANGED <<promise, terminated, confirms, batch>>
    /\ UNCHANGED <<connected_, running_, catalogVars, actuation_callback_,
                   actuation_queue_, publish_queue_, mutexVars, handleVars, pcCaller,
                   pcAW, pcST, pcWT, cur, wreq, areq, stream, countVars,
                   hs, last_stop, nDelivered, nTaken, pubWritten, pubDropped>>
    /\ UNCHANGED <<apiVars, frameVars, clientVars>>

\* stream->Read returns false: the databroker has ended the stream.
RT_ReadEnd(g) ==
    /\ Alive /\ pcRT[g] = "read"
    /\ stream = "broken"
    /\ RT_End(g)
    /\ UNCHANGED <<connected_, running_, catalogVars, actuation_callback_,
                   actuation_queue_, publish_queue_, mutexVars, handleVars, pcCaller,
                   pcAW, pcST, pcWT, localVars, stream, terminated, countVars,
                   histVars>>
    /\ UNCHANGED <<apiVars, frameVars, clientVars>>

\* actuate_req.value(): the value the databroker put into the command.
CommandValue(c) == [tag |-> budget.tag, val |-> 1]

\* The end of one iteration of the loop over the batch: on to the next
\* command, or with none left back to the receive loop.
NextOfBatch(g) == IF Tail(batch[g]) = <<>> THEN "loop" ELSE "cmd"

\* handle_actuation_request as it would be without the `continue` for an
\* unknown id: every command goes on to its acknowledgement.
RT_Cmd_NoSkip(g) ==
    /\ Alive /\ pcRT[g] = "cmd"
    /\ batch[g] # <<>>
    /\ actuators_mutex_ = Free
    /\ LET c == Head(batch[g])
           signal_id == CommandId(c)
           path == find_path_for_id(signal_id)
       IN  /\ cur' = [cur EXCEPT ![g] =
                        [n |-> nCmd + 1, id |-> signal_id, path |-> path,
                         acked |-> FALSE, gen |-> g,
                         value |-> convert_from_proto(CommandValue(c))]]
           /\ nCmd' = nCmd + 1
           /\ pcRT' = [pcRT EXCEPT ![g] = "ack"]
           /\ UNCHANGED batch
    /\ UNCHANGED <<connected_, running_, catalogVars, actuation_callback_,
                   actuation_queue_, publish_queue_, promise, mutexVars, handleVars,
                   pcCaller, pcAW, pcST, pcWT, wreq, areq, stream, terminated,
                   budget, metadata, nStart, nPub, histVars>>
    /\ UNCHANGED <<apiVars, frameVars, clientVars>>

\* handle_actuation_request, one command of the batch: an id the catalog has
\* no path for is skipped (while the loop over the batch goes on, cur keeps
\* the signal_id that was looked up, with no path and no number); otherwise the command goes on to its
\* acknowledgement. The commands that get this far are numbered in the order
\* they arrived.
RT_Cmd(g) ==
    /\ Alive /\ pcRT[g] = "cmd"
    /\ batch[g] # <<>>
    /\ actuators_mutex_ = Free
    /\ LET c == Head(batch[g])
           signal_id == CommandId(c)
           path == find_path_for_id(signal_id)
       IN  IF path = NoPath
           THEN /\ batch' = [batch EXCEPT ![g] = Tail(batch[g])]
                /\ pcRT' = [pcRT EXCEPT ![g] = NextOfBatch(g)]
                /\ cur' = [cur EXCEPT ![g] =
                             IF Tail(batch[g]) = <<>> THEN NoCmd
                             ELSE [n |-> 0, id |-> signal_id, path |-> NoPath,
                                   acked |-> FALSE, gen |-> g,
                                   value |-> DefaultValue]]
                /\ UNCHANGED nCmd
           ELSE /\ cur' = [cur EXCEPT ![g] =
                             [n |-> nCmd + 1, id |-> signal_id, path |-> path,
                              acked |-> FALSE, gen |-> g,
                              value |-> convert_from_proto(CommandValue(c))]]
                /\ nCmd' = nCmd + 1
                /\ pcRT' = [pcRT EXCEPT ![g] = "ack"]
                /\ UNCHANGED batch
    /\ UNCHANGED <<connected_, running_, catalogVars, actuation_callback_,
                   actuation_queue_, publish_queue_, promise, mutexVars, handleVars,
                   pcCaller, pcAW, pcST, pcWT, wreq, areq, stream, terminated,
                   budget, metadata, nStart, nPub, histVars>>
    /\ UNCHANGED <<apiVars, frameVars, clientVars>>

\* send_actuation_ack as it would be without the lock_guard.
RT_AckLock_Unlocked(g) ==
    /\ Alive /\ pcRT[g] = "ack"
    /\ pcRT' = [pcRT EXCEPT ![g] = "ack_write"]
    /\ UNCHANGED <<connected_, running_, catalogVars, actuation_callback_,
                   actuation_queue_, publish_queue_, promise, mutexVars, handleVars,
                   pcCaller, pcAW, pcST, pcWT, localVars, stream, terminated,
                   countVars, histVars>>
    /\ UNCHANGED <<apiVars, frameVars, clientVars>>

\* send_actuation_ack: lock_guard write_lock(stream_write_mutex_)
RT_AckLock(g) ==
    /\ Alive /\ pcRT[g] = "ack"
    /\ stream_write_mutex_ = Free
    /\ stream_write_mutex_' = <<"rt", g>>
    /\ pcRT' = [pcRT EXCEPT ![g] = "ack_write"]
    /\ UNCHANGED <<connected_, running_, catalogVars, actuation_callback_,
                   actuation_queue_, publish_queue_, promise, actuators_mutex_,
                   actuation_mutex_, publish_mutex_, handleVars, pcCaller, pcAW,
                   pcST, pcWT, localVars, stream, terminated, countVars, histVars>>
    /\ UNCHANGED <<apiVars, frameVars, clientVars>>

\* handle_actuation_request as it would be if the acknowledgement were left
\* for later: the request goes to the queue without the write.
RT_AckWrite_Deferred(g) ==
    /\ Alive /\ pcRT[g] = "ack_write"
    /\ stream_write_mutex_' = Free
    /\ pcRT' = [pcRT EXCEPT ![g] = "enq"]
    /\ UNCHANGED <<connected_, running_, catalogVars, actuation_callback_,
                   actuation_queue_, publish_queue_, promise, actuators_mutex_,
                   actuation_mutex_, publish_mutex_, handleVars, pcCaller, pcAW,
                   pcST, pcWT, localVars, stream, terminated, countVars, histVars>>
    /\ UNCHANGED <<apiVars, frameVars, clientVars>>

\* stream->Write(request) of the acknowledgement (a failure is logged), and
\* the lock is released.
RT_AckWrite(g) ==
    /\ Alive /\ pcRT[g] = "ack_write"
    /\ cur' = [cur EXCEPT ![g].acked = TRUE]
    /\ stream_write_mutex_' = Free
    /\ pcRT' = [pcRT EXCEPT ![g] = "enq"]
    /\ UNCHANGED <<connected_, running_, catalogVars, actuation_callback_,
                   actuation_queue_, publish_queue_, promise, actuators_mutex_,
                   actuation_mutex_, publish_mutex_, handleVars, pcCaller, pcAW,
                   pcST, pcWT, batch, wreq, areq, stream, terminated, countVars,
                   histVars>>
    /\ UNCHANGED <<apiVars, frameVars, clientVars>>

\* if (actuation_callback_) queue_actuation_request(req): push and notify_one
\* under actuation_mutex_; then the next command of the batch, if any.
RT_Enqueue(g) ==
    /\ Alive /\ pcRT[g] = "enq"
    /\ IF actuation_callback_
       THEN /\ actuation_mutex_ = Free
            /\ actuation_queue_' = Append(actuation_queue_, cur[g])
            /\ pcAW' = Woken(pcAW)
       ELSE UNCHANGED <<actuation_queue_, pcAW>>
    /\ batch' = [batch EXCEPT ![g] = Tail(batch[g])]
    /\ cur' = [cur EXCEPT ![g] = NoCmd]
    /\ pcRT' = [pcRT EXCEPT ![g] = NextOfBatch(g)]
    /\ UNCHANGED <<connected_, running_, catalogVars, actuation_callback_,
                   publish_queue_, promise, mutexVars, handleVars, pcCaller, pcST,
                   pcWT, wreq, areq, stream, terminated, countVars,
                   hs, last_stop, confirms, nDelivered, 
                   nTaken, pubWritten, pubDropped>>
    /\ UNCHANGED <<apiVars, frameVars, clientVars>>

\* ---------------------------------------------------------- publish_loop (g)
\* The writer as it would be without the pop(): the front request is taken
\* and stays in the queue.
TakeRequest_NoPop(g) ==
    /\ wreq' = [wreq EXCEPT ![g] = Head(publish_queue_)]
    /\ UNCHANGED publish_queue_
    /\ nTaken' = Head(publish_queue_).k
    /\ pcWT' = [pcWT EXCEPT ![g] = "send"]

\* The writer as it would be if it took the newest request, back() and a
\* removal at the back, instead of the oldest.
TakeRequest_Newest(g) ==
    /\ wreq' = [wreq EXCEPT ![g] = publish_queue_[Len(publish_queue_)]]
    /\ publish_queue_' = SubSeq(publish_queue_, 1, Len(publish_queue_) - 1)
    /\ nTaken' = publish_queue_[Len(publish_queue_)].k
    /\ pcWT' = [pcWT EXCEPT ![g] = "send"]

\* auto req = publish_queue_.front(); publish_queue_.pop(); lock.unlock();
TakeRequest(g) ==
    /\ wreq' = [wreq EXCEPT ![g] = Head(publish_queue_)]
    /\ publish_queue_' = Tail(publish_queue_)
    /\ nTaken' = Head(publish_queue_).k
    /\ pcWT' = [pcWT EXCEPT ![g] = "send"]

\* The writer as it would be without the lock.unlock() before
\* send_publish_value: the request is sent with publish_mutex_ held.
WT_Predicate_Holding(g) ==
    IF ~(publish_queue_ # <<>> \/ ~running_)
    THEN /\ publish_mutex_' = <<"wt", g>>
         /\ pcWT' = [pcWT EXCEPT ![g] = "block"]
         /\ UNCHANGED <<publish_queue_, wreq, nTaken>>
    ELSE IF ~running_
         THEN /\ publish_mutex_' = Free
              /\ pcWT' = [pcWT EXCEPT ![g] = "done"]
              /\ UNCHANGED <<publish_queue_, wreq, nTaken>>
         ELSE /\ publish_mutex_' = <<"wt", g>>
              /\ TakeRequest(g)

\* publish_cv_.wait(lock, pred) with the mutex just taken. False: go on to
\* block, still holding the mutex. True: if (!running_) break; otherwise the
\* first request is taken.
WT_Predicate(g) ==
    IF ~(publish_queue_ # <<>> \/ ~running_)
    THEN /\ publish_mutex_' = <<"wt", g>>
         /\ pcWT' = [pcWT EXCEPT ![g] = "block"]
         /\ UNCHANGED <<publish_queue_, wreq, nTaken>>
    ELSE /\ publish_mutex_' = Free
         /\ IF ~running_
            THEN /\ pcWT' = [pcWT EXCEPT ![g] = "done"]
                 /\ UNCHANGED <<publish_queue_, wreq, nTaken>>
            ELSE TakeRequest(g)

\* while (running_) { unique_lock lock(publish_mutex_); wait(lock, pred); ...
WT_Loop(g) ==
    /\ Alive /\ pcWT[g] = "loop"
    /\ IF running_
       THEN /\ publish_mutex_ = Free
            /\ WT_Predicate(g)
       ELSE /\ pcWT' = [pcWT EXCEPT ![g] = "done"]
            /\ UNCHANGED <<publish_mutex_, publish_queue_, wreq, nTaken>>
    /\ UNCHANGED <<connected_, running_, catalogVars, actuation_callback_,
                   actuation_queue_, promise, actuators_mutex_, actuation_mutex_,
                   stream_write_mutex_, handleVars, pcCaller, pcAW, pcST, pcRT,
                   batch, cur, areq, stream, terminated, countVars,
                   hs, last_stop, confirms, nDelivered, pubWritten, pubDropped>>
    /\ UNCHANGED <<apiVars, frameVars, clientVars>>

\* The wait proper: the mutex is released and the thread blocks until notified.
WT_Block(g) ==
    /\ Alive /\ pcWT[g] = "block"
    /\ publish_mutex_' = Free
    /\ pcWT' = [pcWT EXCEPT ![g] = "wait"]
    /\ UNCHANGED <<connected_, running_, catalogVars, actuation_callback_,
                   actuation_queue_, publish_queue_, promise, actuators_mutex_,
                   actuation_mutex_, stream_write_mutex_, handleVars, pcCaller,
                   pcAW, pcST, pcRT, localVars, stream, terminated, countVars,
                   histVars>>
    /\ UNCHANGED <<apiVars, frameVars, clientVars>>

\* Notified: the wait takes the mutex again and evaluates the predicate again.
WT_Relock(g) ==
    /\ Alive /\ pcWT[g] = "relock"
    /\ publish_mutex_ = Free
    /\ WT_Predicate(g)
    /\ UNCHANGED <<connected_, running_, catalogVars, actuation_callback_,
                   actuation_queue_, promise, actuators_mutex_, actuation_mutex_,
                   stream_write_mutex_, handleVars, pcCaller, pcAW, pcST, pcRT,
                   batch, cur, areq, stream, terminated, countVars,
                   hs, last_stop, confirms, nDelivered, pubWritten, pubDropped>>
    /\ UNCHANGED <<apiVars, frameVars, clientVars>>

\* The writer as it would be if a request without a signal id ended it.
WT_Send_Fatal(g) ==
    /\ Alive /\ pcWT[g] = "send"
    /\ actuators_mutex_ = Free
    /\ IF get_signal_id_for_path(wreq[g].path) < 0
       THEN /\ pubDropped' = pubDropped + 1
            /\ pcWT' = [pcWT EXCEPT ![g] = "done"]
            /\ UNCHANGED stream_write_mutex_
       ELSE /\ stream_write_mutex_ = Free
            /\ stream_write_mutex_' = <<"wt", g>>
            /\ pcWT' = [pcWT EXCEPT ![g] = "pub_write"]
            /\ UNCHANGED pubDropped
    /\ UNCHANGED <<connected_, running_, catalogVars, actuation_callback_,
                   actuation_queue_, publish_queue_, promise, actuators_mutex_,
                   actuation_mutex_, publish_mutex_, handleVars, pcCaller, pcAW,
                   pcST, pcRT, localVars, stream, terminated, countVars,
                   hs, last_stop, confirms, nDelivered,
                   nTaken, pubWritten>>
    /\ UNCHANGED <<apiVars, frameVars, clientVars>>

\* send_publish_value up to the write: no signal id for the path gives the
\* request up; otherwise the frame is built and stream_write_mutex_ is locked.
WT_Send(g) ==
    /\ Alive /\ pcWT[g] = "send"
    /\ actuators_mutex_ = Free
    /\ IF get_signal_id_for_path(wreq[g].path) < 0
       THEN /\ pubDropped' = pubDropped + 1
            /\ pcWT' = [pcWT EXCEPT ![g] = "drain"]
            /\ UNCHANGED stream_write_mutex_
       ELSE /\ stream_write_mutex_ = Free
            /\ stream_write_mutex_' = <<"wt", g>>
            /\ pcWT' = [pcWT EXCEPT ![g] = "pub_write"]
            /\ UNCHANGED pubDropped
    /\ UNCHANGED <<connected_, running_, catalogVars, actuation_callback_,
                   actuation_queue_, publish_queue_, promise, actuators_mutex_,
                   actuation_mutex_, publish_mutex_, handleVars, pcCaller, pcAW,
                   pcST, pcRT, localVars, stream, terminated, countVars,
                   hs, last_stop, confirms, nDelivered,
                   nTaken, pubWritten>>
    /\ UNCHANGED <<apiVars, frameVars, clientVars>>

\* stream->Write(request) of the publish frame, and the lock is released.
WT_PubWrite(g) ==
    /\ Alive /\ pcWT[g] = "pub_write"
    /\ pubWritten' = pubWritten + 1
    /\ lastPub' = wreq[g].k
    /\ lastFrame' = convert_to_proto(wreq[g].value)
    /\ stream_write_mutex_' = Free
    /\ pcWT' = [pcWT EXCEPT ![g] = "drain"]
    /\ UNCHANGED <<connected_, running_, catalogVars, actuation_callback_,
                   actuation_queue_, publish_queue_, promise, actuators_mutex_,
                   actuation_mutex_, publish_mutex_, handleVars, pcCaller, pcAW,
                   pcST, pcRT, localVars, stream, terminated, countVars,
                   hs, last_stop, confirms, nDelivered, nTaken, pubDropped>>
    /\ UNCHANGED <<apiVars, claims, clientVars>>

\* The inner while as it would be without its lock.unlock(): the next request
\* is taken and sent with publish_mutex_ still held.
WT_Drain_Holding(g) ==
    /\ Alive /\ pcWT[g] = "drain"
    /\ publish_mutex_ = Free
    /\ IF publish_queue_ # <<>>
       THEN /\ TakeRequest(g)
            /\ publish_mutex_' = <<"wt", g>>
       ELSE /\ pcWT' = [pcWT EXCEPT ![g] = "loop"]
            /\ wreq' = [wreq EXCEPT ![g] = NoReq]
            /\ UNCHANGED <<publish_queue_, nTaken, publish_mutex_>>
    /\ UNCHANGED <<connected_, running_, catalogVars, actuation_callback_,
                   actuation_queue_, promise, actuators_mutex_, actuation_mutex_,
                   stream_write_mutex_, handleVars, pcCaller, pcAW,
                   pcST, pcRT, batch, cur, areq, stream, terminated, countVars,
                   hs, last_stop, confirms, nDelivered, pubWritten, pubDropped>>
    /\ UNCHANGED <<apiVars, frameVars, clientVars>>

\* lock.lock(); then the inner while: the next request is taken, or with the
\* queue empty the lock is dropped at the end of the outer loop's body.
WT_Drain(g) ==
    /\ Alive /\ pcWT[g] = "drain"
    /\ publish_mutex_ = Free
    /\ IF publish_queue_ # <<>>
       THEN TakeRequest(g)
       ELSE /\ pcWT' = [pcWT EXCEPT ![g] = "loop"]
            /\ wreq' = [wreq EXCEPT ![g] = NoReq]
            /\ UNCHANGED <<publish_queue_, nTaken>>
    /\ UNCHANGED <<connected_, running_, catalogVars, actuation_callback_,
                   actuation_queue_, promise, mutexVars, handleVars, pcCaller, pcAW,
                   pcST, pcRT, batch, cur, areq, stream, terminated, countVars,
                   hs, last_stop, confirms, nDelivered, pubWritten, pubDropped>>
    /\ UNCHANGED <<apiVars, frameVars, clientVars>>

\* ------------------------------------------------------------ the databroker
\* Sequences of up to n elements of S.
RECURSIVE SeqsUpTo(_, _)
SeqsUpTo(S, n) ==
    IF n = 0 THEN {<<>>}
    ELSE SeqsUpTo(S, n - 1) \cup
         {Append(q, x) : q \in {r \in SeqsUpTo(S, n - 1) : Len(r) = n - 1}, x \in S}

\* The lists the application hands to provide_actuators: 1..MaxProvide paths.
ProvideLists == SeqsUpTo(ProvidePaths, MaxProvide) \ {<<>>}

\* The batches the databroker sends: 1..MaxBatch commands.
Batches == SeqsUpTo(CmdRefs, MaxBatch) \ {<<>>}

\* The databroker is restarted and comes up with a signal tree of its own;
\* the channel of the stub reconnects to it by itself.
BrokerRestart(tree) ==
    /\ Alive /\ budget.restart
    /\ nStart = 0
    /\ tree # metadata
    /\ metadata' = tree
    /\ UNCHANGED <<connected_, running_, catalogVars, actuation_callback_,
                   actuation_queue_, publish_queue_, promise, mutexVars, handleVars,
                   pcCaller, pcVars, localVars, stream, terminated, budget, nStart,
                   nCmd, nPub, histVars>>
    /\ UNCHANGED <<apiVars, frameVars, clientVars>>

\* The databroker ends the stream.
BrokerClose ==
    /\ Alive /\ stream = "open"
    /\ stream' = "broken"
    /\ UNCHANGED <<connected_, running_, catalogVars, actuation_callback_,
                   actuation_queue_, publish_queue_, promise, mutexVars, handleVars,
                   pcCaller, pcVars, localVars, terminated, countVars,
                   histVars>>
    /\ UNCHANGED <<apiVars, frameVars, clientVars>>

\* ---------------------------------------------------------------- properties
Exited == {"new", "done", "joined"}

\* No thread of the engine is between its start and its end.
Quiescent ==
    \A g \in Gens : /\ pcAW[g] \in Exited /\ pcST[g] \in Exited
                    /\ pcRT[g] \in Exited /\ pcWT[g] \in Exited

\* The generations whose actuation callback is executing.
InCallback == {g \in Gens : pcAW[g] = "cb"}

\* A step of one of the engine's threads, or of the caller inside stop():
\* every step but the API calls and what the databroker does.
EngineStep ==
    \/ JoinActuationWorker
    \/ JoinStreamThread
    \/ \E g \in Gens : AW_Loop(g) \/ AW_Block(g) \/ AW_Relock(g) \/ AW_Return(g)
    \/ \E g \in Gens, opened \in BOOLEAN : ST_Open(g, opened)
    \/ \E g \in Gens : ST_ClaimLock(g) \/ ST_ClaimWrite(g) \/ ST_Wait(g)
    \/ \E g \in Gens : ST_JoinRead(g) \/ ST_JoinWrite(g) \/ ST_Close(g)
    \/ \E g \in Gens : RT_Loop(g) \/ RT_Cmd(g) \/ RT_AckLock(g)
    \/ \E g \in Gens : RT_AckWrite(g) \/ RT_Enqueue(g)
    \/ \E g \in Gens : WT_Loop(g) \/ WT_Block(g) \/ WT_Relock(g)
    \/ \E g \in Gens : WT_Send(g) \/ WT_PubWrite(g) \/ WT_Drain(g)

C3_ArrivalOrder ==
    /\ \A i \in 1..Len(actuation_queue_) : actuation_queue_[i].n = nDelivered + i
    /\ \A g \in InCallback : areq[g].n = nDelivered
    /\ \A g, h \in InCallback : g = h

\* C3 witness: the callback of command 2 is running, that of command 1 having
\* returned.
C3_Witness ==
    \E g \in InCallback : areq[g].n = 2 /\ nDelivered = 2

C5_OneWriter ==
    /\ Cardinality(Writers) <= 1
    /\ \A w \in Writers : stream_write_mutex_ = w

\* C5 witness: the publish writer is writing its frame while the receive
\* worker has an acknowledgement to write.
C5_Witness ==
    \E g \in Gens : pcWT[g] = "pub_write" /\ pcRT[g] = "ack"

\* The publish writers that hold a request they took and have not yet written
\* or given up.
InHand == {g \in Gens : pcWT[g] \in {"send", "pub_write"}}

C7_SecondConfirmationIgnored ==
    confirms >= 2 => (terminated = "no" /\ promise = "true")

\* C8: the outcome is resolved exactly once per start(). It is true exactly
\* when a confirmation was read on this stream; it is false only with the
\* receive worker at its end; with the receive worker at its end it is
\* resolved; and once resolved it changes only by the next start() making a
\* new promise.
C8_ResolvedOnce ==
    /\ [](\A g \in Gens : (g = nStart /\ pcRT[g] # "new") =>
              /\ promise = "true" <=> confirms >= 1
              /\ promise = "false" => pcRT[g] \in {"done", "joined"}
              /\ pcRT[g] \in {"done", "joined"} => promise # "unset")
    /\ [][promise # "unset" =>
              \/ promise' = promise
              \/ promise' = "unset" /\ \E g \in Gens : pcST[g] = "open"]_vars

\* C8 witness: the databroker ended the stream before any confirmation; the
\* receive worker has left its loop and the outcome is false.
C8_Witness ==
    \E g \in Gens : pcRT[g] = "done" /\ promise = "false" /\ confirms = 0
                    /\ stream = "broken"

\* C9 as stated: after a failed handshake the engine is left with no live or
\* unjoined worker thread. Here every thread has come to its end and stop()
\* has been called as well.
C9_FailedLeavesNoThread ==
    (/\ hs \in {"write_failed", "timeout", "rejected"}
     /\ Quiescent /\ pcCaller = Ready /\ last_stop = "noop")
        => (actuation_worker_thread_ = 0 /\ stream_thread_ = 0)

\* C10 as stated: stop() does not deadlock. While the caller is inside stop(),
\* some thread of the engine can take a step: stop() waits for nothing that
\* only the databroker, or nobody, can bring about.
C10_StopNeverStuck ==
    pcCaller # Ready => ENABLED EngineStep

\* C11 as stated: stop() on a provider in the streaming phase returns once no
\* callback is in flight, whatever the databroker does. With the handshake
\* confirmed, no callback running and no consumer left in a wait, the caller
\* inside stop() is waiting for something a thread of the engine can do.
C11_StreamingStopReturns ==
    (/\ Alive /\ pcCaller # Ready /\ hs = "confirmed" /\ InCallback = {}
     /\ \A g \in Gens : pcAW[g] # "wait" /\ pcWT[g] # "wait")
        => ENABLED EngineStep

\* C12 as stated: stop() does not return before a callback that was executing
\* when it was called has returned. No callback starts once the running flag
\* is off, so when a stop() since the last start() has returned, no callback
\* is executing.
C12_StopWaitsForCallback ==
    (last_stop # "never" /\ pcCaller = Ready) => InCallback = {}

\* The command at the head of the receive worker's batch has an id the
\* catalog has no path for.
UnknownNext(g) ==
    /\ pcRT[g] = "cmd" /\ batch[g] # <<>>
    /\ find_path_for_id(CommandId(Head(batch[g]))) = NoPath

\* Every command being acknowledged, queued or with the callback has its id
\* and path in the catalog.
OwnedInFlight ==
    /\ \A g \in Gens : pcRT[g] \in {"ack", "ack_write", "enq"}
           => <<cur[g].id, cur[g].path>> \in id_to_path_
    /\ \A i \in 1..Len(actuation_queue_) :
           <<actuation_queue_[i].id, actuation_queue_[i].path>> \in id_to_path_
    /\ \A g \in InCallback : <<areq[g].id, areq[g].path>> \in id_to_path_

\* C13: a command with an unknown id gives no acknowledgement and no callback
\* and does not end the receive loop. Whatever is being acknowledged, is
\* queued or is with the callback has a path of the catalog under its id; and
\* the step that handles an unknown command only drops it from the batch: no
\* write lock taken, nothing queued, nothing numbered, the worker going on
\* with the batch or, at its end, with the receive loop.
C13_UnknownSkipped ==
    /\ []OwnedInFlight
    /\ [][\A g \in Gens : (UnknownNext(g) /\ batch'[g] # batch[g]) =>
              /\ pcRT'[g] \in {"cmd", "loop"} /\ batch'[g] = Tail(batch[g])
              /\ UNCHANGED <<actuation_queue_, nCmd, stream_write_mutex_,
                             nDelivered, terminated>>]_vars

\* C13 witness: the unknown id 2 has just been skipped and an owned command
\* of the same batch is the next to be handled.
C13_Witness ==
    \E g \in Gens :
        /\ pcRT[g] = "cmd" /\ cur[g].id = 2 /\ cur[g].path = NoPath
        /\ batch[g] # <<>> /\ ~UnknownNext(g)

\* C14: publish_actual only appends to the publish queue and signals. The one
\* mutex it takes, publish_mutex_, is never held by a publish writer that is
\* sending or writing (a writer holds it across steps only while entering its
\* wait), and no actuation worker holds actuation_mutex_ while its callback
\* runs; so whenever publish_mutex_ is free the call completes in one step,
\* also during a stream write and from inside a callback.
C14_PublishNeverWaitsOnIO ==
    /\ \A g \in Gens :
          /\ publish_mutex_ = <<"wt", g>> => pcWT[g] = "block"
          /\ pcWT[g] \in {"send", "pub_write", "drain"} => publish_mutex_ # <<"wt", g>>
          /\ pcAW[g] = "cb" => actuation_mutex_ # <<"aw", g>>
    /\ (Alive /\ nPub < budget.pubs /\ publish_mutex_ = Free)
           => ENABLED PublishActual("A")

\* A publish writer is inside stream->Write of a publish frame, holding
\* stream_write_mutex_, and a further publish_actual call can complete.
C14_Witness ==
    \E g \in Gens :
        /\ pcWT[g] = "pub_write" /\ stream_write_mutex_ = <<"wt", g>>
        /\ nPub < budget.pubs
        /\ ENABLED PublishActual("A")


\* ======================================================== the client facade
\* VSSClient::Impl of sdk/cpp/src/vss_client.cpp: the caller thread's API
\* calls, the subscription read thread of each start_subscriptions() that
\* spawns one (generation g), and the databroker at the other end of the
\* subscription stream.
ClientGens == 1..MaxClientStarts

\* The signals streamed and read, their values, and the callbacks the
\* application registers. NoValue is std::nullopt.
ClientPaths == {"P", "Q"}
PathOrder == <<"P", "Q">>
Values == {1, 2}
NoValue == 0
Callbacks == {"f", "h"}

\* The subscribe(path, callback) calls the application makes: "P" is
\* registered with either callback, so that one replaces the other.
Registrations == {<<"P", "f">>, <<"P", "h">>, <<"Q", "f">>}
NoArg == <<NoPath, NoValue, "">>

\* Impl(address): connected_(false), running_(false); the map is empty and
\* the thread handle holds no thread.
ClientInit ==
    /\ client_connected_ = FALSE
    /\ client_running_ = FALSE
    /\ subscriptions_ = {}
    /\ subscriptions_mutex_ = Free
    /\ subscription_thread_ = 0
    /\ pcClient = "ready"
    /\ todo = <<>>
    /\ carg = NoArg
    /\ pcSub = [g \in ClientGens |-> "new"]
    /\ request = [g \in ClientGens |-> {}]
    /\ substream = [g \in ClientGens |-> "none"]
    /\ entries = [g \in ClientGens |-> <<>>]
    /\ sarg = [g \in ClientGens |-> NoArg]
    /\ client_terminated = FALSE
    /\ client_last_conn = "none" /\ client_ret = "none"
    /\ nClientStart = 0 /\ nFrames = 0
    /\ started_with = [g \in ClientGens |-> {}]
    /\ nStreamCb = [g \in ClientGens |-> 0]

\* The run uses the client, and std::terminate has not ended its process.
ClientAlive == budget.side = "client" /\ ~client_terminated

\* The keys of subscriptions_, and the keys in the order the map iterates.
SubscribedPaths == {e[1] : e \in subscriptions_}
IsSubscribed(p) == p \in SubscribedPaths
RegisteredInOrder == SelectSeq(PathOrder, IsSubscribed)

\* subscriptions_.find(path)->second
CallbackOf(path) == (CHOOSE e \in subscriptions_ : e[1] = path)[2]

\* connect() of the client: false when the channel wait fails, and when the
\* GetValue probe is not ok with UNAVAILABLE or DEADLINE_EXCEEDED.
ClientConnectResult(channel, status) ==
    IF channel # "ready" THEN FALSE
    ELSE IF status # "OK" /\ status \in {"UNAVAILABLE", "DEADLINE_EXCEEDED"}
    THEN FALSE
    ELSE TRUE

\* ------------------------------------------------- the client's caller thread
ClientConnect(channel, status) ==
    /\ ClientAlive /\ pcClient = "ready"
    /\ client_connected_' = ClientConnectResult(channel, status)
    /\ client_ret' = Returned(ClientConnectResult(channel, status))
    /\ client_last_conn' = IF ClientConnectResult(channel, status)
                           THEN "connect_true" ELSE "connect_false"
    /\ UNCHANGED <<client_running_, subscriptions_, subscriptions_mutex_,
                   subscription_thread_, clientCallerVars, clientThreadVars,
                   client_terminated, nClientStart, started_with, nFrames, nStreamCb>>
    /\ UNCHANGED vars

\* disconnect() as it would be if connected_ = false were inside
\* if (running_): a client that is not running stays connected.
ClientDisconnect_IfRunning ==
    /\ ClientAlive /\ pcClient = "ready"
    /\ IF client_running_ /\ subscription_thread_ # 0
       THEN /\ client_running_' = FALSE
            /\ pcClient' = "join"
            /\ UNCHANGED <<client_connected_, client_last_conn>>
       ELSE /\ client_running_' = FALSE
            /\ client_connected_' = IF client_running_ THEN FALSE ELSE client_connected_
            /\ client_last_conn' = "disconnect"
            /\ UNCHANGED pcClient
    /\ UNCHANGED <<subscriptions_, subscriptions_mutex_, subscription_thread_,
                   todo, carg, clientThreadVars, client_terminated, client_ret,
                   nClientStart, started_with, nFrames, nStreamCb>>
    /\ UNCHANGED vars

\* disconnect(): if (running_) { running_ = false; join the thread if
\* joinable }, then connected_ = false.
ClientDisconnect ==
    /\ ClientAlive /\ pcClient = "ready"
    /\ IF client_running_ /\ subscription_thread_ # 0
       THEN /\ client_running_' = FALSE
            /\ pcClient' = "join"
            /\ UNCHANGED <<client_connected_, client_last_conn>>
       ELSE /\ client_running_' = FALSE
            /\ client_connected_' = FALSE
            /\ client_last_conn' = "disconnect"
            /\ UNCHANGED pcClient
    /\ UNCHANGED <<subscriptions_, subscriptions_mutex_, subscription_thread_,
                   todo, carg, clientThreadVars, client_terminated, client_ret,
                   nClientStart, started_with, nFrames, nStreamCb>>
    /\ UNCHANGED vars

\* subscription_thread_.join() returns once the thread has ended; then
\* connected_ = false and disconnect() returns.
ClientJoin ==
    /\ ClientAlive /\ pcClient = "join"
    /\ pcSub[subscription_thread_] = "done"
    /\ pcSub' = [pcSub EXCEPT ![subscription_thread_] = "joined"]
    /\ subscription_thread_' = 0
    /\ client_connected_' = FALSE
    /\ client_last_conn' = "disconnect"
    /\ pcClient' = "ready"
    /\ UNCHANGED <<client_running_, subscriptions_, subscriptions_mutex_, todo,
                   carg, request, substream, entries, sarg, client_terminated,
                   client_ret, nClientStart, started_with, nFrames, nStreamCb>>
    /\ UNCHANGED vars

\* subscribe(path, callback): subscriptions_[path] = callback under the mutex.
Subscribe(path, callback) ==
    /\ ClientAlive /\ pcClient = "ready"
    /\ subscriptions_mutex_ = Free
    /\ subscriptions_' = MapPut(subscriptions_, path, callback)
    /\ UNCHANGED <<clientFlagVars, subscriptions_mutex_, subscription_thread_,
                   clientCallerVars, clientThreadVars, client_terminated,
                   clientHistVars>>
    /\ UNCHANGED vars

\* start_subscription_thread(): running_ = true and the handle is
\* move-assigned a new thread. Assigning to a handle that is still joinable
\* is std::terminate.
StartSubscriptionThread ==
    /\ client_running_' = TRUE
    /\ IF subscription_thread_ # 0
       THEN /\ client_terminated' = TRUE
            /\ UNCHANGED <<subscription_thread_, pcSub, nClientStart, started_with>>
       ELSE /\ subscription_thread_' = nClientStart + 1
            /\ pcSub' = [pcSub EXCEPT ![nClientStart + 1] = "open"]
            /\ nClientStart' = nClientStart + 1
            /\ started_with' = [started_with EXCEPT ![nClientStart + 1] = SubscribedPaths]
            /\ UNCHANGED client_terminated

\* start_subscriptions() as it would be without the return while running.
StartSubscriptions_Unguarded ==
    /\ ClientAlive /\ pcClient = "ready"
    /\ subscriptions_mutex_ = Free
    /\ client_connected_
    /\ nClientStart < budget.starts
    /\ StartSubscriptionThread
    /\ subscriptions_mutex_' = <<"caller", 0>>
    /\ pcClient' = "initial"
    /\ todo' = RegisteredInOrder
    /\ UNCHANGED <<client_connected_, subscriptions_, carg, request, substream,
                   entries, sarg, client_last_conn, client_ret, nFrames,
                   nStreamCb>>
    /\ UNCHANGED vars

\* start_subscriptions() as it would be if it dropped the mutex once the
\* thread is started: the initial values are delivered without it.
StartSubscriptions_Unlocked ==
    /\ ClientAlive /\ pcClient = "ready"
    /\ subscriptions_mutex_ = Free
    /\ client_connected_ /\ ~client_running_
    /\ nClientStart < budget.starts
    /\ StartSubscriptionThread
    /\ subscriptions_mutex_' = Free
    /\ pcClient' = "initial"
    /\ todo' = RegisteredInOrder
    /\ UNCHANGED <<client_connected_, subscriptions_, carg, request, substream,
                   entries, sarg, client_last_conn, client_ret, nFrames,
                   nStreamCb>>
    /\ UNCHANGED vars

\* start_subscriptions() on a connected client that is not running: takes
\* the mutex, starts the thread and goes on to the initial values, the mutex
\* held until it returns.
StartSubscriptions ==
    /\ ClientAlive /\ pcClient = "ready"
    /\ subscriptions_mutex_ = Free
    /\ client_connected_ /\ ~client_running_
    /\ nClientStart < budget.starts
    /\ StartSubscriptionThread
    /\ subscriptions_mutex_' = <<"caller", 0>>
    /\ pcClient' = "initial"
    /\ todo' = RegisteredInOrder
    /\ UNCHANGED <<client_connected_, subscriptions_, carg, request, substream,
                   entries, sarg, client_last_conn, client_ret, nFrames,
                   nStreamCb>>
    /\ UNCHANGED vars

\* start_subscriptions() while not connected, or while running: takes the
\* mutex, logs and returns.
StartSubscriptionsRefused ==
    /\ ClientAlive /\ pcClient = "ready"
    /\ subscriptions_mutex_ = Free
    /\ ~client_connected_ \/ client_running_
    /\ UNCHANGED <<apiVars, frameVars, clientVars>>
    /\ UNCHANGED vars

\* get(path): std::nullopt when not connected or when the GetValue status is
\* not ok, else the data point of the response.
get(path, answer) ==
    IF ~client_connected_ THEN NoValue ELSE answer

\* The loop of start_subscriptions over the map: auto initial_value =
\* get(path); if it has a value, callback(initial_value.value()).
InitialGet(answer) ==
    /\ ClientAlive /\ pcClient = "initial"
    /\ todo # <<>>
    /\ LET path == Head(todo)
           initial_value == get(path, answer)
       IN  IF initial_value # NoValue
           THEN /\ pcClient' = "cb"
                /\ carg' = <<path, initial_value, CallbackOf(path)>>
                /\ UNCHANGED todo
           ELSE /\ todo' = Tail(todo)
                /\ UNCHANGED <<pcClient, carg>>
    /\ UNCHANGED <<clientFlagVars, subscriptions_, subscriptions_mutex_,
                   subscription_thread_, clientThreadVars, client_terminated,
                   clientHistVars>>
    /\ UNCHANGED vars

\* The callback called with the initial value returns.
InitialReturn ==
    /\ ClientAlive /\ pcClient = "cb"
    /\ pcClient' = "initial"
    /\ todo' = Tail(todo)
    /\ carg' = NoArg
    /\ UNCHANGED <<clientFlagVars, subscriptions_, subscriptions_mutex_,
                   subscription_thread_, clientThreadVars, client_terminated,
                   clientHistVars>>
    /\ UNCHANGED vars

\* The loop is over: start_subscriptions() returns and the lock_guard
\* releases the mutex.
StartSubscriptionsReturn ==
    /\ ClientAlive /\ pcClient = "initial"
    /\ todo = <<>>
    /\ subscriptions_mutex_' = Free
    /\ pcClient' = "ready"
    /\ UNCHANGED <<clientFlagVars, subscriptions_, subscription_thread_, todo,
                   carg, clientThreadVars, client_terminated, clientHistVars>>
    /\ UNCHANGED vars

\* ------------------------------------------------------- subscribe_loop (g)
\* The request lists the keys of subscriptions_, read without the mutex, and
\* stub_->Subscribe opens the stream, or gives a reader whose Read fails.
SubscribeLoop_Open(g, opened) ==
    /\ ClientAlive /\ pcSub[g] = "open"
    /\ request' = [request EXCEPT ![g] = SubscribedPaths]
    /\ substream' = [substream EXCEPT ![g] = IF opened THEN "open" ELSE "ended"]
    /\ pcSub' = [pcSub EXCEPT ![g] = "loop"]
    /\ UNCHANGED <<clientFlagVars, subscriptions_, subscriptions_mutex_,
                   subscription_thread_, clientCallerVars, entries, sarg,
                   client_terminated, clientHistVars>>
    /\ UNCHANGED vars

\* while (running_ && reader->Read(&response)): the flag is read, and with
\* it set the thread enters Read; cleared, the loop is left, Finish() is
\* called and the thread ends.
SubscribeLoop_Check(g) ==
    /\ ClientAlive /\ pcSub[g] = "loop"
    /\ pcSub' = [pcSub EXCEPT ![g] = IF client_running_ THEN "read" ELSE "done"]
    /\ UNCHANGED <<clientFlagVars, subscriptions_, subscriptions_mutex_,
                   subscription_thread_, clientCallerVars, request, substream,
                   entries, sarg, client_terminated, clientHistVars>>
    /\ UNCHANGED vars

\* Read returns true with a response the databroker streamed: its entries
\* are handled one after the other.
SubscribeLoop_Read(g, response) ==
    /\ ClientAlive /\ pcSub[g] = "read"
    /\ substream[g] = "open"
    /\ nFrames < budget.frames
    /\ nFrames' = nFrames + 1
    /\ entries' = [entries EXCEPT ![g] = response]
    /\ pcSub' = [pcSub EXCEPT ![g] = "update"]
    /\ UNCHANGED <<clientFlagVars, subscriptions_, subscriptions_mutex_,
                   subscription_thread_, clientCallerVars, request, substream,
                   sarg, client_terminated, client_last_conn, client_ret,
                   nClientStart, started_with, nStreamCb>>
    /\ UNCHANGED vars

\* Read returns false on a stream the databroker has ended: Finish() and the
\* thread ends.
SubscribeLoop_ReadEnd(g) ==
    /\ ClientAlive /\ pcSub[g] = "read"
    /\ substream[g] = "ended"
    /\ pcSub' = [pcSub EXCEPT ![g] = "done"]
    /\ UNCHANGED <<clientFlagVars, subscriptions_, subscriptions_mutex_,
                   subscription_thread_, clientCallerVars, request, substream,
                   entries, sarg, client_terminated, clientHistVars>>
    /\ UNCHANGED vars

\* Where the read thread goes on after the first of its entries: the next
\* entry, or the head of the loop.
NextOfResponse(g) == IF Tail(entries[g]) = <<>> THEN "loop" ELSE "update"

\* handle_update as it would be without the lock_guard.
HandleUpdate_Unlocked(g) ==
    /\ ClientAlive /\ pcSub[g] = "update"
    /\ entries[g] # <<>>
    /\ LET path == Head(entries[g])[1]
           value == Head(entries[g])[2]
       IN  IF IsSubscribed(path)
           THEN /\ sarg' = [sarg EXCEPT ![g] = <<path, value, CallbackOf(path)>>]
                /\ nStreamCb' = [nStreamCb EXCEPT ![g] = nStreamCb[g] + 1]
                /\ pcSub' = [pcSub EXCEPT ![g] = "cb"]
                /\ UNCHANGED entries
           ELSE /\ entries' = [entries EXCEPT ![g] = Tail(entries[g])]
                /\ pcSub' = [pcSub EXCEPT ![g] = NextOfResponse(g)]
                /\ UNCHANGED <<sarg, nStreamCb>>
    /\ UNCHANGED <<clientFlagVars, subscriptions_, subscriptions_mutex_,
                   subscription_thread_, clientCallerVars, request, substream,
                   client_terminated, client_last_conn, client_ret, nClientStart, started_with,
                   nFrames>>
    /\ UNCHANGED vars

\* handle_update as it would be if an update for a path without callback
\* ended the read loop.
HandleUpdate_Strict(g) ==
    /\ ClientAlive /\ pcSub[g] = "update"
    /\ entries[g] # <<>>
    /\ subscriptions_mutex_ = Free
    /\ LET path == Head(entries[g])[1]
           value == Head(entries[g])[2]
       IN  IF IsSubscribed(path)
           THEN /\ subscriptions_mutex_' = <<"sub", g>>
                /\ sarg' = [sarg EXCEPT ![g] = <<path, value, CallbackOf(path)>>]
                /\ nStreamCb' = [nStreamCb EXCEPT ![g] = nStreamCb[g] + 1]
                /\ pcSub' = [pcSub EXCEPT ![g] = "cb"]
                /\ UNCHANGED entries
           ELSE /\ entries' = [entries EXCEPT ![g] = <<>>]
                /\ pcSub' = [pcSub EXCEPT ![g] = "done"]
                /\ UNCHANGED <<subscriptions_mutex_, sarg, nStreamCb>>
    /\ UNCHANGED <<clientFlagVars, subscriptions_, subscription_thread_,
                   clientCallerVars, request, substream, client_terminated,
                   client_last_conn, client_ret, nClientStart, started_with, nFrames>>
    /\ UNCHANGED vars

\* handle_update(path, value): under the mutex, find the path; found, the
\* callback is called with the value.
HandleUpdate(g) ==
    /\ ClientAlive /\ pcSub[g] = "update"
    /\ entries[g] # <<>>
    /\ subscriptions_mutex_ = Free
    /\ LET path == Head(entries[g])[1]
           value == Head(entries[g])[2]
       IN  IF IsSubscribed(path)
           THEN /\ subscriptions_mutex_' = <<"sub", g>>
                /\ sarg' = [sarg EXCEPT ![g] = <<path, value, CallbackOf(path)>>]
                /\ nStreamCb' = [nStreamCb EXCEPT ![g] = nStreamCb[g] + 1]
                /\ pcSub' = [pcSub EXCEPT ![g] = "cb"]
                /\ UNCHANGED entries
           ELSE /\ entries' = [entries EXCEPT ![g] = Tail(entries[g])]
                /\ pcSub' = [pcSub EXCEPT ![g] = NextOfResponse(g)]
                /\ UNCHANGED <<subscriptions_mutex_, sarg, nStreamCb>>
    /\ UNCHANGED <<clientFlagVars, subscriptions_, subscription_thread_,
                   clientCallerVars, request, substream, client_terminated,
                   client_last_conn, client_ret, nClientStart, started_with, nFrames>>
    /\ UNCHANGED vars

\* The callback handle_update called returns, and the mutex is released.
HandleUpdate_Return(g) ==
    /\ ClientAlive /\ pcSub[g] = "cb"
    /\ subscriptions_mutex_' = Free
    /\ sarg' = [sarg EXCEPT ![g] = NoArg]
    /\ entries' = [entries EXCEPT ![g] = Tail(entries[g])]
    /\ pcSub' = [pcSub EXCEPT ![g] = NextOfResponse(g)]
    /\ UNCHANGED <<clientFlagVars, subscriptions_, subscription_thread_,
                   clientCallerVars, request, substream, client_terminated,
                   clientHistVars>>
    /\ UNCHANGED vars

\* ------------------------------------------------ calls made by a callback
\* The callback handle_update called calls subscribe(path, callback) on the
\* same client: lock_guard lock(subscriptions_mutex_), which returns with the
\* mutex only if it is free; the thread that already holds it blocks in
\* lock() (std::mutex is not recursive).
ReentrantSubscribe(g, path, callback) ==
    /\ ClientAlive /\ pcSub[g] = "cb"
    /\ IF subscriptions_mutex_ = Free
       THEN /\ subscriptions_' = MapPut(subscriptions_, path, callback)
            /\ UNCHANGED pcSub
       ELSE /\ pcSub' = [pcSub EXCEPT ![g] = "cb_blocked"]
            /\ UNCHANGED subscriptions_
    /\ UNCHANGED <<clientFlagVars, subscriptions_mutex_, subscription_thread_,
                   clientCallerVars, request, substream, entries, sarg,
                   client_terminated, clientHistVars>>
    /\ UNCHANGED vars

\* The same call made by a callback that start_subscriptions() called with an
\* initial value, on the caller thread.
InitialReentrantSubscribe(path, callback) ==
    /\ ClientAlive /\ pcClient = "cb"
    /\ IF subscriptions_mutex_ = Free
       THEN /\ subscriptions_' = MapPut(subscriptions_, path, callback)
            /\ UNCHANGED pcClient
       ELSE /\ pcClient' = "cb_blocked"
            /\ UNCHANGED subscriptions_
    /\ UNCHANGED <<clientFlagVars, subscriptions_mutex_, subscription_thread_,
                   todo, carg, clientThreadVars, client_terminated,
                   clientHistVars>>
    /\ UNCHANGED vars

\* ------------------------------------------- the databroker, for the client
\* The responses the databroker streams: entries is a map from path to data
\* point, iterated in no particular order.
Responses ==
    {<<e>> : e \in ClientPaths \X Values}
    \cup {<<d, e>> : d \in {"P"} \X Values, e \in {"Q"} \X Values}
    \cup {<<e, d>> : d \in {"P"} \X Values, e \in {"Q"} \X Values}

\* The databroker ends the subscription stream.
ClientBrokerClose(g) ==
    /\ ClientAlive /\ substream[g] = "open"
    /\ substream' = [substream EXCEPT ![g] = "ended"]
    /\ UNCHANGED <<clientFlagVars, subscriptions_, subscriptions_mutex_,
                   subscription_thread_, clientCallerVars, pcSub, request,
                   entries, sarg, client_terminated, clientHistVars>>
    /\ UNCHANGED vars

\* ------------------------------------------------- properties of the client
\* The read threads whose callback is executing.
InStreamCallback == {g \in ClientGens : pcSub[g] = "cb"}

\* C15: the read thread's step on an update for a path with a registered
\* callback calls that callback, once, with the path's value of the update;
\* its step on an update for a path without callback calls nothing, ends
\* nothing, and goes on to the next entry or the next Read. When a callback
\* returns its entry is done with, so no update is handed over twice; a
\* callback that blocks in a call of its own has not returned.
C15_UpdateDispatchedOnce ==
    [][\A g \in ClientGens :
         /\ (pcSub[g] = "update" /\ <<pcSub[g], entries[g]>>' # <<pcSub[g], entries[g]>>)
               => LET path == Head(entries[g])[1]
                      value == Head(entries[g])[2]
                  IN  IF IsSubscribed(path)
                      THEN /\ pcSub'[g] = "cb"
                           /\ sarg'[g] = <<path, value, CallbackOf(path)>>
                           /\ nStreamCb'[g] = nStreamCb[g] + 1
                           /\ entries'[g] = entries[g]
                      ELSE /\ pcSub'[g] \in {"update", "loop"}
                           /\ entries'[g] = Tail(entries[g])
                           /\ UNCHANGED <<sarg, nStreamCb, client_terminated,
                                          substream, subscriptions_mutex_>>
         /\ (pcSub[g] = "cb" /\ pcSub'[g] \notin {"cb", "cb_blocked"})
               => /\ pcSub'[g] \in {"update", "loop"}
                  /\ entries'[g] = Tail(entries[g])
                  /\ UNCHANGED nStreamCb
         /\ (pcSub[g] # "update" /\ pcSub'[g] = pcSub[g])
               => nStreamCb'[g] = nStreamCb[g]]_allVars

\* The only read thread is in the first callback it calls, on the one entry
\* for "P" of the second response: the first response carried no path with a
\* callback, and the loop went on.
C15_Witness ==
    \E g \in ClientGens :
        /\ nClientStart = 1 /\ nFrames = 2
        /\ pcSub[g] = "cb" /\ nStreamCb[g] = 1
        /\ sarg[g] = <<"P", 2, "h">>
        /\ entries[g] = << <<"P", 2>> >>
        /\ ~IsSubscribed("Q")

\* The caller thread is inside start_subscriptions(), past the start of the
\* read thread.
InStartSubscriptions == pcClient \in {"initial", "cb"}

\* While start_subscriptions() is delivering initial values no read thread is
\* in a callback, the read thread just started has called none, and the
\* paths still to be read are registered ones.
NoStreamedDuringInitial ==
    InStartSubscriptions =>
        /\ InStreamCallback = {}
        /\ (subscription_thread_ # 0 => nStreamCb[subscription_thread_] = 0)
        /\ \A i \in 1..Len(todo) : IsSubscribed(todo[i])

\* C16: while start_subscriptions() is delivering initial values no read
\* thread is in a callback and the read thread it started has called none;
\* the call goes through every registered path in turn, and each get that
\* succeeds is followed by the path's callback called with the value got.
C16_InitialBeforeStreamed ==
    /\ []NoStreamedDuringInitial
    /\ [][/\ (pcClient = "ready" /\ pcClient' = "initial")
              => todo' = RegisteredInOrder
          /\ (pcClient = "initial" /\ pcClient' = "cb")
              => /\ carg'[1] = Head(todo) /\ carg'[2] \in Values
                 /\ carg'[3] = CallbackOf(Head(todo))
          /\ (pcClient = "initial" /\ pcClient' = "ready") => todo = <<>>
          /\ (InStartSubscriptions /\ todo' # todo) => todo' = Tail(todo)]_allVars

\* start_subscriptions() is in the callback of "P" with the initial value 1
\* while the read thread it started has read an update for "P" and has yet
\* to call anything.
C16_Witness ==
    /\ pcClient = "cb" /\ carg = <<"P", 1, "f">>
    /\ subscription_thread_ # 0
    /\ pcSub[subscription_thread_] = "update"
    /\ Head(entries[subscription_thread_]) = <<"P", 2>>

\* The read threads that exist: started and not yet joined.
ReadThreads == {g \in ClientGens : pcSub[g] \notin {"new", "joined"}}

\* The subscription streams a read thread holds open.
OpenStreams == {g \in ReadThreads : pcSub[g] # "open" /\ pcSub[g] # "done"}

\* C17: at most one read thread exists and at most one subscription stream
\* is held at any time, the thread being the one the handle holds; and no
\* step taken while subscriptions are running, or while the client is not
\* connected, starts a thread or ends the process on the thread handle.
C17_OneStreamOneThread ==
    /\ [](/\ Cardinality(ReadThreads) <= 1 /\ Cardinality(OpenStreams) <= 1
          /\ ReadThreads \subseteq {subscription_thread_}
          /\ ~client_terminated)
    /\ [][(client_running_ \/ ~client_connected_)
              => /\ nClientStart' = nClientStart
                 /\ \A g \in ClientGens : pcSub[g] = "new" => pcSub'[g] = "new"
                 /\ client_terminated' = client_terminated]_allVars

\* The thread of the second start_subscriptions() is reading its stream, the
\* first thread having been joined by disconnect(); a start_subscriptions()
\* made now finds subscriptions running.
C17_Witness ==
    /\ pcSub[1] = "joined" /\ pcSub[2] = "read" /\ substream[2] = "open"
    /\ pcClient = "ready" /\ client_connected_ /\ client_running_
    /\ ENABLED StartSubscriptionsRefused

\* ------------------------------------- properties of connecting and providing
\* A connect() call that has to fail: the channel did not get ready within
\* the wait, or the probe ended with a transport-level status.
TransportFailure(channel, status) ==
    channel = "unreachable" \/ status \in {"UNAVAILABLE", "DEADLINE_EXCEEDED"}

\* C18: every connect() step, of the provider and of the client, returns
\* false and leaves connected_ false when the channel was unreachable or the
\* probe status was UNAVAILABLE or DEADLINE_EXCEEDED, and returns true and
\* leaves connected_ true on every other probe status, NOT_FOUND included.
C18_ConnectFailsOnTransportOnly ==
    [][\A attempt \in ConnectAttempts :
         LET fails == TransportFailure(attempt[1], attempt[2])
         IN  /\ Connect(attempt[1], attempt[2])
                   => /\ ret' = Returned(~fails) /\ connected_' = ~fails
                      /\ last_conn' = IF fails THEN "connect_false" ELSE "connect_true"
             /\ ClientConnect(attempt[1], attempt[2])
                   => /\ client_ret' = Returned(~fails) /\ client_connected_' = ~fails
                      /\ client_last_conn' = IF fails THEN "connect_false"
                                             ELSE "connect_true"]_allVars

\* The provider's last connect() returned false and left it disconnected,
\* and a connect() whose probe ends with NOT_FOUND now returns true and
\* leaves it connected.
C18_Witness ==
    /\ last_conn = "connect_false" /\ ret = "false" /\ ~connected_
    /\ ENABLED (Connect("ready", "NOT_FOUND") /\ connected_' /\ ret' = "true")
    /\ ENABLED (Connect("ready", "DEADLINE_EXCEEDED") /\ ~connected_' /\ ret' = "false")

\* C19: connected_ is true exactly when the last connect() or disconnect()
\* to return was a connect() that returned true, for the provider and for
\* the client; and a disconnect() made before any connect(), or right after
\* another disconnect(), returns at once, ends nothing and leaves connected_
\* false.
C19_ConnectedIffLastConnectSucceeded ==
    /\ [](/\ connected_ <=> last_conn = "connect_true"
          /\ client_connected_ <=> client_last_conn = "connect_true")
    /\ [][/\ (last_conn \in {"none", "disconnect"} /\ StopBegin("disc"))
              => /\ pcCaller' = Ready /\ last_conn' = "disconnect"
                 /\ ~connected_' /\ terminated' = terminated
          /\ (client_last_conn \in {"none", "disconnect"} /\ ClientDisconnect)
              => /\ pcClient' = "ready" /\ client_last_conn' = "disconnect"
                 /\ ~client_connected_'
                 /\ client_terminated' = client_terminated]_allVars

\* The provider's disconnect() has stopped a started engine, joined its
\* threads and returned, and a second disconnect() can be made.
C19_Witness ==
    /\ last_conn = "disconnect" /\ ~connected_
    /\ nStart = 1 /\ last_stop = "joined" /\ pcCaller = Ready
    /\ ENABLED StopBegin("disc")

\* The path has an id the databroker returns to this provider now.
Resolved(path) == query_signal_id(path) >= 0

\* The elements of a sequence.
Range(q) == {q[i] : i \in 1..Len(q)}

C21_CatalogInverse ==
    /\ \A e \in path_to_id_ : <<e[2], e[1]>> \in id_to_path_
    /\ \A e \in id_to_path_ : <<e[2], e[1]>> \in path_to_id_

\* C22 as stated: on a connected provider a value passed to publish_actual
\* is eventually sent to the databroker without start() having been called.
\* Only a thread of the engine can send it; so with start() never called and
\* no thread of the engine able to take a step, every value passed to
\* publish_actual has been written to a stream.
C22_PublishedWithoutStart ==
    (connected_ /\ nStart = 0 /\ ~ENABLED EngineStep) => pubWritten = nPub

\* C23 as stated: with start_subscriptions() never called, a subscribe() call
\* on a connected client starts the subscriptions: the step of the call sets
\* the running flag and spawns the read thread that opens the stream.
C23_SubscribeAutoStarts ==
    [][\A r \in Registrations :
         (client_connected_ /\ nClientStart = 0 /\ Subscribe(r[1], r[2]))
            => (client_running_' /\ nClientStart' = 1 /\ subscription_thread_' = 1)]_allVars

\* C24 as stated: shutdown never strands a queue consumer. Once stop() has
\* turned the running flag off and broadcast on both conditions, no actuation
\* worker and no publish writer is blocked in its wait: nothing would wake
\* it again.
C24_NoConsumerStranded ==
    (pcCaller # Ready /\ ~running_)
        => \A g \in Gens : pcAW[g] # "wait" /\ pcWT[g] # "wait"

\* The claim frame of generation g's stream has not been written yet: the
\* stream thread is before, or at, its stream->Write of the claim.
ClaimPending(g) == pcST[g] \in {"claim", "claim_write"}

\* C25 as stated: the ownership-claim frame is the first frame written on a
\* stream. Every step that writes a publish frame or an acknowledgement is
\* taken with the claim frame of its stream already written.
C25_ClaimFirst ==
    [][\A g \in Gens : (WT_PubWrite(g) \/ RT_AckWrite(g)) => ~ClaimPending(g)]_allVars

\* The stream thread of generation g is past its write of the claim and has
\* not returned.
ClaimSent(g) ==
    pcST[g] \in {"wait", "join_r", "join_w", "close", "fail_join_r", "fail_join_w"}

\* While the claim of a stream is still to be written its receive worker and
\* its publish writer have been started and no claim frame is on the stream;
\* no stream ever has a second claim frame, and a stream whose thread is past
\* the claim has one.
OneClaimAfterWorkers ==
    \A g \in Gens :
        /\ ClaimPending(g) => (pcRT[g] # "new" /\ pcWT[g] # "new" /\ claims[g] = <<>>)
        /\ Len(claims[g]) <= 1
        /\ ClaimSent(g) => Len(claims[g]) = 1

C27_NoStaleRequest ==
    \A g \in InCallback : areq[g].gen = g

\* C28 as stated: for every command that resolves to an owned path the
\* engine writes one acknowledgement and then enqueues one ActuationRequest,
\* whether or not a callback is registered. The step that follows the
\* acknowledgement write appends the command to the actuation queue.
C28_AckThenEnqueue ==
    [][\A g \in Gens :
         RT_Enqueue(g) => /\ cur[g].acked
                          /\ actuation_queue_' = Append(actuation_queue_, cur[g])]_allVars

\* The writer of generation g holds a request whose path has no entry in
\* path_to_id_ and is about to send it.
UnresolvedInHand(g) == pcWT[g] = "send" /\ ~HasId(wreq[g].path)

\* A publish frame is only written for a path that has an id, and a writer
\* that is done with a request can go on to the next one as soon as
\* publish_mutex_ is free.
WriterGoesOn ==
    \A g \in Gens :
        /\ pcWT[g] = "pub_write" => HasId(wreq[g].path)
        /\ (Alive /\ pcWT[g] = "drain" /\ publish_mutex_ = Free) => ENABLED WT_Drain(g)

QueueInAppendOrder ==
    /\ \A i \in 1..Len(publish_queue_) :
          /\ publish_queue_[i].k > lastPub
          /\ \A j \in 1..Len(publish_queue_) :
                i < j => publish_queue_[i].k < publish_queue_[j].k
    /\ \A g \in Gens :
          pcWT[g] \in {"send", "pub_write"}
             => /\ wreq[g].k > lastPub
                /\ \A i \in 1..Len(publish_queue_) : wreq[g].k < publish_queue_[i].k

\* C30: publish frames go onto the stream in the order their requests were
\* appended to publish_queue_: every frame written belongs to a later call of
\* publish_actual_value than the frame written before it.
C30_FramesInAppendOrder ==
    /\ []QueueInAppendOrder
    /\ [][\A g \in Gens :
             WT_PubWrite(g) => (wreq[g].k > lastPub /\ lastPub' = wreq[g].k)]_allVars

\* Two requests were appended and both frames have been written, the frame
\* of the second call last.
C30_Witness ==
    /\ nPub = 2 /\ pubWritten = 2 /\ pubDropped = 0 /\ lastPub = 2
    /\ publish_queue_ = <<>>

\* The stream thread of generation g is at WritesDone()/Finish() or past the
\* end of provider_stream_loop.
AtOrPastClose(g) == pcST[g] \in {"close", "done", "joined"}

\* Once the stream thread is at the close or past it, the receive worker and
\* the publish writer of its stream have been joined (or were never started,
\* when the stream could not be opened).
WorkersJoinedAtClose ==
    \A g \in Gens :
        AtOrPastClose(g) => (pcRT[g] \in {"new", "joined"} /\ pcWT[g] \in {"new", "joined"})

\* C31: the stream is half-closed and finished only after the receive worker
\* and the publish writer have exited, and no claim, acknowledgement or
\* publish frame is written to it afterwards: WritesDone()/Finish() is a step
\* with both workers joined, and every write to the stream of generation g is
\* a step taken before the stream thread of g has come to the close.
C31_CloseAfterWorkers ==
    /\ []WorkersJoinedAtClose
    /\ [][\A g \in Gens :
             /\ ST_Close(g) => (pcRT[g] = "joined" /\ pcWT[g] = "joined")
             /\ (ST_ClaimWrite(g) \/ RT_AckWrite(g) \/ WT_PubWrite(g))
                    => ~AtOrPastClose(g)]_allVars

\* A confirmed stream on which a publish frame was written has been
\* half-closed and finished, with both workers joined.
C31_Witness ==
    \E g \in Gens :
        /\ g = nStart /\ hs = "confirmed" /\ pcST[g] \in {"done", "joined"}
        /\ pcRT[g] = "joined" /\ pcWT[g] = "joined"
        /\ pubWritten = 1 /\ stream = "none"

\* The threads of the engine, as the mutexes name their holders.
Threads == {<<kind, g>> : kind \in {"st", "rt", "wt", "aw"}, g \in Gens}

\* The thread holds one of the two queue mutexes.
HoldsQueueMutex(t) == publish_mutex_ = t \/ actuation_mutex_ = t

\* The thread holds the catalog mutex or the stream-write mutex, or its next
\* step takes one of them: the stream thread before the claim, the receive
\* worker before find_path_for_id and before the acknowledgement, the writer
\* before send_publish_value.
AtCatalogOrWrite(t) ==
    \/ actuators_mutex_ = t \/ stream_write_mutex_ = t
    \/ t[1] = "st" /\ pcST[t[2]] = "claim"
    \/ t[1] = "rt" /\ pcRT[t[2]] \in {"cmd", "ack"}
    \/ t[1] = "wt" /\ pcWT[t[2]] = "send"

\* No thread has a queue mutex together with the catalog mutex or the
\* stream-write mutex, held or about to be taken; the queue mutexes are only
\* held across a step by the consumer that is about to block on its
\* condition.
QueueLocksNotNested ==
    /\ \A t \in Threads : ~(HoldsQueueMutex(t) /\ AtCatalogOrWrite(t))
    /\ \A g \in Gens :
          /\ publish_mutex_ = <<"wt", g>> => pcWT[g] = "block"
          /\ actuation_mutex_ = <<"aw", g>> => pcAW[g] = "block"
    /\ publish_mutex_ \in {Free} \cup {<<"wt", g>> : g \in Gens}
    /\ actuation_mutex_ \in {Free} \cup {<<"aw", g>> : g \in Gens}

\* C32: the queue mutexes are never nested with the catalog mutex or the
\* stream-write mutex. No thread holds a queue mutex while it holds or takes
\* one of the other two; the step that pushes a command under
\* actuation_mutex_ is taken by a receive worker that holds neither, and the
\* steps in which the writer resolves the id and writes are taken without
\* publish_mutex_.
C32_QueueLocksNotNested ==
    /\ []QueueLocksNotNested
    /\ [][\A g \in Gens :
             /\ RT_Enqueue(g) => (actuators_mutex_ # <<"rt", g>>
                                   /\ stream_write_mutex_ # <<"rt", g>>)
             /\ (WT_Send(g) \/ WT_PubWrite(g)) => publish_mutex_ # <<"wt", g>>]_allVars

\* The writer is inside the write of a publish frame with stream_write_mutex_
\* and without publish_mutex_, a further request is queued, and the actuation
\* worker holds actuation_mutex_.
C32_Witness ==
    \E g \in Gens :
        /\ pcWT[g] = "pub_write" /\ stream_write_mutex_ = <<"wt", g>>
        /\ publish_mutex_ = Free /\ Len(publish_queue_) = 1
        /\ pcAW[g] = "block" /\ actuation_mutex_ = <<"aw", g>>

\* The generations whose actuation worker, receive worker and publish writer
\* have been started and have not come to the end of their function.
LiveAW == {g \in Gens : pcAW[g] \notin Exited}
LiveRT == {g \in Gens : pcRT[g] \notin Exited}
LiveWT == {g \in Gens : pcWT[g] \notin Exited}

\* At most one thread of each kind is alive, and a live thread belongs to the
\* last start().
OneThreadOfEachKind ==
    /\ Cardinality(LiveAW) <= 1 /\ Cardinality(LiveRT) <= 1 /\ Cardinality(LiveWT) <= 1
    /\ LiveAW \cup LiveRT \cup LiveWT \subseteq {nStart}

OutcomeFromThisStream ==
    \A g \in Gens : (g = nStart /\ pcRT[g] # "new") => (promise = "true" <=> confirms >= 1)

\* C34 as stated: each start() makes a fresh claim outcome. A start() that
\* follows a stop(), whether the session before it ended by that stop() or by
\* a failed handshake, begins a new handshake without error: it starts the
\* threads of a new generation with the handshake pending and the process
\* goes on; and the outcome is decided by the frames of the new stream only.
C34_FreshHandshakePerStart ==
    /\ []OutcomeFromThisStream
    /\ [][(Start /\ last_stop \in {"noop", "joined"})
             => /\ terminated' = "no" /\ nStart' = nStart + 1
                /\ hs' = "pending" /\ pcST'[nStart + 1] = "open"]_allVars

\* C35 as stated: the subscribe request of a stream lists exactly the paths
\* that were registered when its start_subscriptions() was called, whatever
\* subscribe() calls follow the return of start_subscriptions().
C35_RequestListsPathsAtStart ==
    \A g \in ClientGens :
        pcSub[g] \notin {"new", "open"} => request[g] = started_with[g]

\* The threads of the client that are executing a subscription callback: the
\* caller inside start_subscriptions(), and the read threads.
InClientCallback ==
    {<<"caller", 0>> : x \in {pcClient} \cap {"cb", "cb_blocked"}}
    \cup {<<"sub", g>> : g \in {h \in ClientGens : pcSub[h] \in {"cb", "cb_blocked"}}}

\* C36: no two subscription callbacks of a client execute at once, an initial
\* value delivery and a streamed update delivery included: at most one thread
\* is in a callback, and it holds subscriptions_mutex_.
C36_CallbacksExclusive ==
    /\ Cardinality(InClientCallback) <= 1
    /\ \A t \in InClientCallback : subscriptions_mutex_ = t

\* start_subscriptions() is in the callback of an initial value, holding the
\* mutex, while the read thread has an update in hand that it cannot deliver
\* yet.
C36_Witness ==
    /\ pcClient = "cb" /\ subscriptions_mutex_ = <<"caller", 0>>
    /\ \E g \in ClientGens :
          /\ pcSub[g] = "update" /\ IsSubscribed(Head(entries[g])[1])
          /\ ~ENABLED HandleUpdate(g)

\* C37 as stated: a subscription callback that calls subscribe() on the same
\* client returns, whether handle_update called it on the read thread or
\* start_subscriptions() called it with an initial value: the call makes its
\* registration and the callback goes on.
C37_ReentrantCallReturns ==
    [][\A r \in Registrations :
         /\ \A g \in ClientGens :
               ReentrantSubscribe(g, r[1], r[2])
                  => (pcSub'[g] = "cb" /\ subscriptions_' = MapPut(subscriptions_, r[1], r[2]))
         /\ InitialReentrantSubscribe(r[1], r[2])
               => (pcClient' = "cb" /\ subscriptions_' = MapPut(subscriptions_, r[1], r[2]))]_allVars

\* A step the client can take by itself: of the caller inside disconnect(),
\* or of a read thread other than Read returning a response, which takes the
\* databroker sending one.
ClientEngineStep ==
    \/ ClientJoin
    \/ \E g \in ClientGens, opened \in BOOLEAN : SubscribeLoop_Open(g, opened)
    \/ \E g \in ClientGens : SubscribeLoop_Check(g)
    \/ \E g \in ClientGens : SubscribeLoop_ReadEnd(g)
    \/ \E g \in ClientGens : HandleUpdate(g)
    \/ \E g \in ClientGens : HandleUpdate_Return(g)

\* C38 as stated: disconnect() on a client whose subscription stream is
\* running returns with the read thread joined even if the databroker sends
\* nothing more and keeps the stream open. While the caller is inside
\* disconnect() and no callback is stuck in a call of its own, the client has
\* a step to take that does not wait for the databroker.
C38_DisconnectReturns ==
    (pcClient = "join" /\ \A g \in ClientGens : pcSub[g] # "cb_blocked")
        => ENABLED ClientEngineStep

\* The tags convert_from_proto has a branch for.
DecoderTags == {"bool", "int32", "float", "double", "string"}

\* The value v survives publishing: the frame carries the tag of v's kind, and
\* what a decoder reads from the frame is v.
PublishedFaithfully(v) ==
    /\ convert_to_proto(v).tag = v.kind
    /\ convert_from_proto(convert_to_proto(v)) = v

\* C39: whatever kind of Value a publish request holds (bool, int32, uint32,
\* int64, uint64, float, double or string), the frame the writer puts on the
\* stream is tagged with that kind, and decoding the frame gives the value
\* back.
C39_PublishKeepsKind ==
    [][\A g \in Gens :
          WT_PubWrite(g) => /\ PublishedFaithfully(wreq[g].value)
                            /\ lastFrame'.tag = wreq[g].value.kind
                            /\ convert_from_proto(lastFrame') = wreq[g].value]_allVars

\* The commands of this run carry a value with none of the decoder's tags.
UndecodableCommands == budget.tag \notin DecoderTags

\* Every proto value with a tag the decoder has no branch for decodes to bool
\* false.
FallbackIsFalse ==
    \A t \in ProtoTags \ DecoderTags, x \in Payloads :
        convert_from_proto([tag |-> t, val |-> x]) = DefaultValue

\* What the engine holds of such a command, in hand, queued or in the
\* callback, has the value bool false; what is queued or in the callback has
\* been acknowledged.
UndecodableHeldAsFalse ==
    UndecodableCommands =>
        /\ \A g \in Gens : cur[g].n > 0 => cur[g].value = DefaultValue
        /\ \A i \in 1..Len(actuation_queue_) :
               /\ actuation_queue_[i].value = DefaultValue
               /\ actuation_queue_[i].path # NoPath
        /\ \A g \in InCallback : areq[g].value = DefaultValue /\ areq[g].n > 0

\* C40: a command for an owned path whose value carries none of the tags the
\* decoder knows (bool, int32, float, double, string) is not rejected: it goes
\* on to its acknowledgement and to the queue with the value bool false, and
\* that is the value the callback gets.
C40_UndecodableCommandDelivered ==
    /\ []FallbackIsFalse
    /\ []UndecodableHeldAsFalse
    /\ [][\A g \in Gens :
            /\ (RT_Cmd(g) /\ UndecodableCommands
                    /\ find_path_for_id(CommandId(Head(batch[g]))) # NoPath)
                   => /\ pcRT'[g] = "ack"
                      /\ cur'[g].value = DefaultValue
                      /\ cur'[g].path = find_path_for_id(CommandId(Head(batch[g])))
            /\ (RT_Enqueue(g) /\ UndecodableCommands /\ actuation_callback_)
                   => /\ cur[g].acked
                      /\ actuation_queue_' = Append(actuation_queue_, cur[g])
                      /\ cur[g].value = DefaultValue]_allVars

C40_Witness ==
    /\ UndecodableCommands
    /\ \E g \in InCallback :
          /\ areq[g].value = DefaultValue
          /\ areq[g].path = "A"
          /\ areq[g].acked
          /\ areq[g].n = 1

\* ------------------------------------------------------------ specification
\* Both objects just constructed.
Init == budget \in Budgets /\ ProviderInit /\ ClientInit

\* Only the client is used.
InitClient == budget = ClientBudget /\ ProviderInit /\ ClientInit

ProviderNext ==
    \/ \E attempt \in ConnectAttempts : Connect(attempt[1], attempt[2])
    \/ \E paths \in ProvideLists : ProvideActuators(paths)
    \/ OnActuateRequest
    \/ \E path \in ProvidePaths : PublishActual(path)
    \/ Start
    \/ StartRefused
    \/ StopBegin("stop")
    \/ StopBegin("disc")
    \/ JoinActuationWorker
    \/ JoinStreamThread
    \/ \E g \in Gens : AW_Loop(g)
    \/ \E g \in Gens : AW_Block(g)
    \/ \E g \in Gens : AW_Relock(g)
    \/ \E g \in Gens : AW_Return(g)
    \/ \E g \in Gens, opened \in BOOLEAN : ST_Open(g, opened)
    \/ \E g \in Gens : ST_ClaimLock(g)
    \/ \E g \in Gens : ST_ClaimWrite(g)
    \/ \E g \in Gens : ST_Wait(g)
    \/ \E g \in Gens : ST_JoinRead(g)
    \/ \E g \in Gens : ST_JoinWrite(g)
    \/ \E g \in Gens : ST_Close(g)
    \/ \E g \in Gens : RT_Loop(g)
    \/ \E g \in Gens : RT_Read(g, "confirm", <<>>)
    \/ \E g \in Gens, refs \in Batches : RT_Read(g, "batch", refs)
    \/ \E g \in Gens : RT_Read(g, "puback", <<>>)
    \/ \E g \in Gens : RT_ReadEnd(g)
    \/ \E g \in Gens : RT_Cmd(g)
    \/ \E g \in Gens : RT_AckLock(g)
    \/ \E g \in Gens : RT_AckWrite(g)
    \/ \E g \in Gens : RT_Enqueue(g)
    \/ \E g \in Gens : WT_Loop(g)
    \/ \E g \in Gens : WT_Block(g)
    \/ \E g \in Gens : WT_Relock(g)
    \/ \E g \in Gens : WT_Send(g)
    \/ \E g \in Gens : WT_PubWrite(g)
    \/ \E g \in Gens : WT_Drain(g)
    \/ BrokerClose
    \/ \E tree \in Trees : BrokerRestart(tree)

ClientNext ==
    \/ \E attempt \in ConnectAttempts : ClientConnect(attempt[1], attempt[2])
    \/ ClientDisconnect
    \/ ClientJoin
    \/ \E r \in Registrations : Subscribe(r[1], r[2])
    \/ StartSubscriptions
    \/ StartSubscriptionsRefused
    \/ \E answer \in Values \cup {NoValue} : InitialGet(answer)
    \/ InitialReturn
    \/ StartSubscriptionsReturn
    \/ \E g \in ClientGens, opened \in BOOLEAN : SubscribeLoop_Open(g, opened)
    \/ \E g \in ClientGens : SubscribeLoop_Check(g)
    \/ \E g \in ClientGens, response \in Responses : SubscribeLoop_Read(g, response)
    \/ \E g \in ClientGens : SubscribeLoop_ReadEnd(g)
    \/ \E g \in ClientGens : HandleUpdate(g)
    \/ \E g \in ClientGens : HandleUpdate_Return(g)
    \/ \E g \in ClientGens, r \in Registrations : ReentrantSubscribe(g, r[1], r[2])
    \/ \E r \in Registrations : InitialReentrantSubscribe(r[1], r[2])
    \/ \E g \in ClientGens : ClientBrokerClose(g)

\* A step of the object the run uses.
Next == ProviderNext \/ ClientNext

Spec == Init /\ [][Next]_allVars

ClientSpec == InitClient /\ [][ClientNext]_allVars
====
